---- MODULE Spec2Model ----
(***************************************************************************)
(* A model of wazero's Store (instantiation, name reservation, function    *)
(* type interning, import resolution) and of its configuration builders    *)
(* (RuntimeConfig, ModuleConfig).                                          *)
(*                                                                         *)
(* Go pointers are modelled as indexes into heaps (sequences): index 0 is  *)
(* the nil pointer.  A *uint32 is a sequence of length 0 (nil) or 1.       *)
(* Every section of code that runs under Store.mux is one atomic action.   *)
(***************************************************************************)
EXTENDS Integers, Sequences, FiniteSets, TLC

VARIABLES
    \* ---- wasm.Store and the goroutines calling Store.Instantiate
    moduleNames,    \* Store.moduleNames: the set of reserved names
    modules,        \* Store.modules: name -> ModuleInstance
    typeIDs,        \* Store.typeIDs: FunctionType.String() -> FunctionTypeID
    memories,       \* heap of MemoryInstance; a *MemoryInstance is an index
    cachedModules,  \* the engine's compiled-module cache (set of *Module)
    calls,          \* per goroutine: the frame of its Store.Instantiate call
    resolved,       \* the last result of Store.resolveImports (SpecImports)
    \* ---- wazero.RuntimeConfig
    rcHeap,         \* heap of runtimeConfig structs; a *runtimeConfig is an index
    rcLast,         \* the last WithXXX call: method, receiver, argument, result
    \* ---- wazero.ModuleConfig
    mcStructs,      \* heap of moduleConfig structs; a *moduleConfig is an index
    mcMaps,         \* heap of Go maps; a map value is an index (0 is the nil map)
    mcArrays,       \* heap of backing arrays of []string slices
    mcLast,         \* the last WithXXX call: method, receiver, result
    \* ---- the binary decoder
    decoded         \* the last call of decodeConstantExpression: input and result

storeVars == <<moduleNames, modules, typeIDs, memories, cachedModules, calls, resolved>>
rcVars == <<rcHeap, rcLast>>
mcVars == <<mcStructs, mcMaps, mcArrays, mcLast>>
binaryVars == <<decoded>>
vars == <<moduleNames, modules, typeIDs, memories, cachedModules, calls, resolved,
          rcHeap, rcLast, mcStructs, mcMaps, mcArrays, mcLast, decoded>>

\* The value the variables of the other components keep while one component runs.
Unused == <<>>

StoreUnused ==
    /\ moduleNames = Unused /\ modules = Unused /\ typeIDs = Unused
    /\ memories = Unused /\ cachedModules = Unused /\ calls = Unused
    /\ resolved = Unused
RuntimeConfigUnused == rcHeap = Unused /\ rcLast = Unused
ModuleConfigUnused ==
    /\ mcStructs = Unused /\ mcMaps = Unused /\ mcArrays = Unused /\ mcLast = Unused
BinaryUnused == decoded = Unused

(***************************************************************************)
(* wazero.RuntimeConfig (config.go)                                        *)
(***************************************************************************)

\* The number of WithXXX calls made on runtime configs in one behaviour.
MaxRuntimeConfigCalls == 3

\* wasm.Features is a bit set; its bits are modelled as set members.
FeatureBulkMemoryOperations == "bulk-memory-operations"
FeatureMultiValue == "multi-value"
FeatureMutableGlobal == "mutable-global"
FeatureNonTrappingFloatToIntConversion == "nontrapping-float-to-int-conversion"
FeatureReferenceTypes == "reference-types"
FeatureSignExtensionOps == "sign-extension-ops"

\* wasm.Features20191205: WebAssembly Core 1.0.
Features20191205 == {FeatureMutableGlobal}

\* wasm.Features20220419: WebAssembly Core 2.0 draft.
Features20220419 ==
    {FeatureBulkMemoryOperations, FeatureMultiValue, FeatureMutableGlobal,
     FeatureNonTrappingFloatToIntConversion, FeatureReferenceTypes,
     FeatureSignExtensionOps}

\* wasm.Features.Set(feature, val)
FeaturesSet(f, feature, val) == IF val THEN f \cup {feature} ELSE f \ {feature}

\* wasm.Features.Get(feature)
FeaturesGet(f, feature) == feature \in f

\* The page limits WithMemoryLimitPages is called with.
MemoryLimitInputs == {1, 2}

\* wasm.MemoryLimitPages, the default limit, scaled down from 65536.
MemoryLimitPages == 3

\* The functions WithMemoryCapacityPages is called with; "nil" is the nil func.
CapacityFuncs == {"nil", "max"}

engineLessConfig ==
    [enabledFeatures |-> Features20191205,
     newEngine |-> "",
     memoryLimitPages |-> MemoryLimitPages,
     memoryCapacityPages |-> "min"]

NewRuntimeConfigJIT == [engineLessConfig EXCEPT !.newEngine = "jit"]

NewRuntimeConfigInterpreter == [engineLessConfig EXCEPT !.newEngine = "interpreter"]

\* Each WithXXX below is <<heap after the call, returned pointer>>.
\* `ret := *c` followed by `return &ret` allocates a new struct on the heap.

WithFeatureBulkMemoryOperations(h, c, enabled) ==
    LET ret == h[c]
        r1 == [ret EXCEPT !.enabledFeatures = FeaturesSet(@, FeatureBulkMemoryOperations, enabled)]
        r2 == [r1 EXCEPT !.enabledFeatures = FeaturesSet(@, FeatureReferenceTypes, enabled)]
    IN  <<Append(h, r2), Len(h) + 1>>

\* WithFeatureMultiValue enabling the feature whatever it is given.
WithFeatureMultiValueAlways(h, c, enabled) ==
    LET ret == h[c]
        r1 == [ret EXCEPT !.enabledFeatures = FeaturesSet(@, FeatureMultiValue, TRUE)]
    IN  <<Append(h, r1), Len(h) + 1>>

WithFeatureMultiValue(h, c, enabled) ==
    LET ret == h[c]
        r1 == [ret EXCEPT !.enabledFeatures = FeaturesSet(@, FeatureMultiValue, enabled)]
    IN  <<Append(h, r1), Len(h) + 1>>

WithFeatureMutableGlobal(h, c, enabled) ==
    LET ret == h[c]
        r1 == [ret EXCEPT !.enabledFeatures = FeaturesSet(@, FeatureMutableGlobal, enabled)]
    IN  <<Append(h, r1), Len(h) + 1>>

WithFeatureNonTrappingFloatToIntConversion(h, c, enabled) ==
    LET ret == h[c]
        r1 == [ret EXCEPT !.enabledFeatures =
                   FeaturesSet(@, FeatureNonTrappingFloatToIntConversion, enabled)]
    IN  <<Append(h, r1), Len(h) + 1>>

\* The mutant of WithFeatureReferenceTypes: the coupled feature is not set.
WithFeatureReferenceTypesUncoupled(h, c, enabled) ==
    LET ret == h[c]
        r1 == [ret EXCEPT !.enabledFeatures = FeaturesSet(@, FeatureReferenceTypes, enabled)]
    IN  <<Append(h, r1), Len(h) + 1>>

WithFeatureReferenceTypes(h, c, enabled) ==
    LET ret == h[c]
        r1 == [ret EXCEPT !.enabledFeatures = FeaturesSet(@, FeatureReferenceTypes, enabled)]
        r2 == [r1 EXCEPT !.enabledFeatures = FeaturesSet(@, FeatureBulkMemoryOperations, enabled)]
    IN  <<Append(h, r2), Len(h) + 1>>

WithFeatureSignExtensionOps(h, c, enabled) ==
    LET ret == h[c]
        r1 == [ret EXCEPT !.enabledFeatures = FeaturesSet(@, FeatureSignExtensionOps, enabled)]
    IN  <<Append(h, r1), Len(h) + 1>>

WithMemoryCapacityPages(h, c, maxCapacityPages) ==
    IF maxCapacityPages = "nil"
    THEN <<h, c>>
    ELSE LET ret == h[c]
             r1 == [ret EXCEPT !.memoryCapacityPages = maxCapacityPages]
         IN  <<Append(h, r1), Len(h) + 1>>

\* The mutant of WithMemoryLimitPages: the receiver is written, not a copy of it.
WithMemoryLimitPagesInPlace(h, c, memoryLimitPages) ==
    <<[h EXCEPT ![c].memoryLimitPages = memoryLimitPages], c>>

WithMemoryLimitPages(h, c, memoryLimitPages) ==
    LET ret == h[c]
        r1 == [ret EXCEPT !.memoryLimitPages = memoryLimitPages]
    IN  <<Append(h, r1), Len(h) + 1>>

\* WithWasmCore1 adding the preset to the features enabled so far.
WithWasmCore1Accumulated(h, c) ==
    LET ret == h[c]
        r1 == [ret EXCEPT !.enabledFeatures = @ \cup Features20191205]
    IN  <<Append(h, r1), Len(h) + 1>>

WithWasmCore1(h, c) ==
    LET ret == h[c]
        r1 == [ret EXCEPT !.enabledFeatures = Features20191205]
    IN  <<Append(h, r1), Len(h) + 1>>

WithWasmCore2(h, c) ==
    LET ret == h[c]
        r1 == [ret EXCEPT !.enabledFeatures = Features20220419]
    IN  <<Append(h, r1), Len(h) + 1>>

\* One WithXXX call: `out` is the method's <<heap, pointer>>.
RuntimeConfigCall(method, c, arg, out) ==
    /\ rcLast.n < MaxRuntimeConfigCalls
    /\ rcHeap' = out[1]
    /\ rcLast' = [method |-> method, recv |-> c, arg |-> arg, ret |-> out[2],
                  n |-> rcLast.n + 1]
    /\ UNCHANGED storeVars
    /\ UNCHANGED binaryVars
    /\ UNCHANGED mcVars

RcBulkMemoryOperations ==
    \E c \in 1..Len(rcHeap), enabled \in BOOLEAN :
        RuntimeConfigCall("WithFeatureBulkMemoryOperations", c, enabled,
                          WithFeatureBulkMemoryOperations(rcHeap, c, enabled))

RcMultiValue ==
    \E c \in 1..Len(rcHeap), enabled \in BOOLEAN :
        RuntimeConfigCall("WithFeatureMultiValue", c, enabled,
                          WithFeatureMultiValue(rcHeap, c, enabled))

RcMutableGlobal ==
    \E c \in 1..Len(rcHeap), enabled \in BOOLEAN :
        RuntimeConfigCall("WithFeatureMutableGlobal", c, enabled,
                          WithFeatureMutableGlobal(rcHeap, c, enabled))

RcNonTrappingFloatToIntConversion ==
    \E c \in 1..Len(rcHeap), enabled \in BOOLEAN :
        RuntimeConfigCall("WithFeatureNonTrappingFloatToIntConversion", c, enabled,
                          WithFeatureNonTrappingFloatToIntConversion(rcHeap, c, enabled))

RcReferenceTypes ==
    \E c \in 1..Len(rcHeap), enabled \in BOOLEAN :
        RuntimeConfigCall("WithFeatureReferenceTypes", c, enabled,
                          WithFeatureReferenceTypes(rcHeap, c, enabled))

RcSignExtensionOps ==
    \E c \in 1..Len(rcHeap), enabled \in BOOLEAN :
        RuntimeConfigCall("WithFeatureSignExtensionOps", c, enabled,
                          WithFeatureSignExtensionOps(rcHeap, c, enabled))

RcMemoryCapacityPages ==
    \E c \in 1..Len(rcHeap), f \in CapacityFuncs :
        RuntimeConfigCall("WithMemoryCapacityPages", c, f,
                          WithMemoryCapacityPages(rcHeap, c, f))

RcMemoryLimitPages ==
    \E c \in 1..Len(rcHeap), n \in MemoryLimitInputs :
        RuntimeConfigCall("WithMemoryLimitPages", c, n,
                          WithMemoryLimitPages(rcHeap, c, n))

RcWasmCore1 ==
    \E c \in 1..Len(rcHeap) :
        RuntimeConfigCall("WithWasmCore1", c, FALSE, WithWasmCore1(rcHeap, c))

RcWasmCore2 ==
    \E c \in 1..Len(rcHeap) :
        RuntimeConfigCall("WithWasmCore2", c, FALSE, WithWasmCore2(rcHeap, c))

RuntimeConfigInit ==
    /\ rcHeap \in {<<NewRuntimeConfigJIT>>, <<NewRuntimeConfigInterpreter>>}
    /\ rcLast = [method |-> "", recv |-> 0, arg |-> FALSE, ret |-> 1, n |-> 0]
    /\ StoreUnused
    /\ ModuleConfigUnused
    /\ BinaryUnused

RuntimeConfigNext ==
    \/ RcBulkMemoryOperations
    \/ RcMultiValue
    \/ RcMutableGlobal
    \/ RcNonTrappingFloatToIntConversion
    \/ RcReferenceTypes
    \/ RcSignExtensionOps
    \/ RcMemoryCapacityPages
    \/ RcMemoryLimitPages
    \/ RcWasmCore1
    \/ RcWasmCore2

SpecRuntimeConfig == RuntimeConfigInit /\ [][RuntimeConfigNext]_vars

\* C5: every RuntimeConfig WithXXX method leaves the receiver's (and every other
\* existing configuration's) enabled features, memory limit and capacity function
\* unchanged; the change is carried by the returned configuration only.
C5_ReceiverUnchanged ==
    [][\A c \in 1..Len(rcHeap) :
          /\ c <= Len(rcHeap')
          /\ rcHeap'[c].enabledFeatures = rcHeap[c].enabledFeatures
          /\ rcHeap'[c].memoryLimitPages = rcHeap[c].memoryLimitPages
          /\ rcHeap'[c].memoryCapacityPages = rcHeap[c].memoryCapacityPages]_vars

\* A returned configuration differs from its receiver, which a later call reads.
C5_Witness ==
    /\ rcLast.method = "WithMemoryLimitPages"
    /\ rcLast.ret # rcLast.recv
    /\ rcHeap[rcLast.ret].memoryLimitPages # rcHeap[rcLast.recv].memoryLimitPages
    /\ rcLast.n >= 2

\* C7: in every reachable RuntimeConfig bulk-memory-operations is enabled if and only
\* if reference-types is enabled.
C7_BulkIffReferenceTypes ==
    \A c \in 1..Len(rcHeap) :
        FeaturesGet(rcHeap[c].enabledFeatures, FeatureBulkMemoryOperations)
            <=> FeaturesGet(rcHeap[c].enabledFeatures, FeatureReferenceTypes)

\* Both features were switched on by one toggle, and off again by the other.
C7_Witness ==
    /\ rcLast.method = "WithFeatureBulkMemoryOperations"
    /\ rcLast.arg = FALSE
    /\ FeaturesGet(rcHeap[rcLast.recv].enabledFeatures, FeatureReferenceTypes)
    /\ ~FeaturesGet(rcHeap[rcLast.ret].enabledFeatures, FeatureReferenceTypes)

(***************************************************************************)
(* wasm.Store: data model                                                  *)
(***************************************************************************)

\* The goroutines that call Store.Instantiate, each once.
NumProcs == 2

Procs == 1..NumProcs

\* Store.functionMaxTypes: NewStore sets it to maximumFunctionTypes (1 << 27); it is a
\* field "for testability", and is lowered here so that the limit can be reached.
functionMaxTypes == 3

\* An error value: `kind` is the format string's fixed text, `msg` the whole message.
\* The nil error has the empty kind.
nil == [kind |-> "", msg |-> ""]

Errorf(kind, msg) == [kind |-> kind, msg |-> msg]

\* A nil pointer to a struct, and the nil *MemoryInstance (an index).
NilPtr == <<>>
NilMemory == 0

\* wasm.ValueType, named by its byte.
ValueTypeI32 == "0x7f"
ValueTypeI64 == "0x7e"
ValueTypeF32 == "0x7d"
ValueTypeF64 == "0x7c"

\* wasm.RefType
RefTypeFuncref == "0x70"
RefTypeExternref == "0x6f"

\* wasm.ExternType
ExternTypeFunc == "func"
ExternTypeTable == "table"
ExternTypeMemory == "memory"
ExternTypeGlobal == "global"

\* wasm.ExternTypeName
ExternTypeName(et) == et

\* wasm.ValueTypeName
ValueTypeName(vt) ==
    CASE vt = ValueTypeI32 -> "i32"
      [] vt = ValueTypeI64 -> "i64"
      [] vt = ValueTypeF32 -> "f32"
      [] vt = ValueTypeF64 -> "f64"
      [] OTHER -> "unknown"

RECURSIVE ValueTypeNames(_)
ValueTypeNames(ts) ==
    IF ts = <<>> THEN "" ELSE ValueTypeName(Head(ts)) \o ValueTypeNames(Tail(ts))

\* wasm.FunctionType.String: the key of Store.typeIDs, e.g. "i32i64_v", "v_f64".
String(t) ==
    (IF Len(t.Params) = 0 THEN "v_" ELSE ValueTypeNames(t.Params) \o "_")
        \o (IF Len(t.Results) = 0 THEN "v" ELSE ValueTypeNames(t.Results))

\* wasm.FunctionType.EqualsSignature
EqualsSignature(t, params, results) == t.Params = params /\ t.Results = results

FunctionType(params, results) == [Params |-> params, Results |-> results]

\* A memory declared without a max: Max is the limit and IsMaxEncoded is false.
ExportMemory(minPages, limit) ==
    [Min |-> minPages, Max |-> limit, IsMaxEncoded |-> FALSE]

\* A memory declared with a max.
ExportMemoryWithMax(minPages, maxPages) ==
    [Min |-> minPages, Max |-> maxPages, IsMaxEncoded |-> TRUE]

\* wasm.Memory.ValidateMinMax, which Build and CompileModule apply to every memory.
ValidateMinMax(mem, limit) == mem.Min <= mem.Max /\ mem.Max <= limit

(***************************************************************************)
(* wasm.Store: function type interning                                     *)
(***************************************************************************)

\* The mutant of getFunctionTypeID: a new type is given the ID of the newest type.
getFunctionTypeIDReused(ids, t) ==
    LET key == String(t) IN
    IF key \in DOMAIN ids
    THEN [typeIDs |-> ids, id |-> ids[key], err |-> nil]
    ELSE LET l == Cardinality(DOMAIN ids) IN
         IF l >= functionMaxTypes
         THEN [typeIDs |-> ids, id |-> 0,
               err |-> Errorf("too many function types in a store",
                              "too many function types in a store")]
         ELSE LET id == IF l = 0 THEN 0 ELSE l - 1
              IN  [typeIDs |-> (key :> id) @@ ids, id |-> id, err |-> nil]

\* getFunctionTypeID with the limit tested by > in place of >=.
getFunctionTypeIDOverLimit(ids, t) ==
    LET key == String(t) IN
    IF key \in DOMAIN ids
    THEN [typeIDs |-> ids, id |-> ids[key], err |-> nil]
    ELSE LET l == Cardinality(DOMAIN ids) IN
         IF l > functionMaxTypes
         THEN [typeIDs |-> ids, id |-> 0,
               err |-> Errorf("too many function types in a store",
                              "too many function types in a store")]
         ELSE LET id == Cardinality(DOMAIN ids)
              IN  [typeIDs |-> (key :> id) @@ ids, id |-> id, err |-> nil]

\* The mutant of getFunctionTypeID: a known type is interned again under a new ID.
getFunctionTypeIDFresh(ids, t) ==
    LET key == String(t)
        l == Cardinality(DOMAIN ids) IN
    IF l >= functionMaxTypes
    THEN [typeIDs |-> ids, id |-> 0,
          err |-> Errorf("too many function types in a store",
                         "too many function types in a store")]
    ELSE [typeIDs |-> (key :> l) @@ ids, id |-> l, err |-> nil]

\* Store.getFunctionTypeID: [typeIDs after the call, the ID, the error].
getFunctionTypeID(ids, t) ==
    LET key == String(t) IN
    IF key \in DOMAIN ids
    THEN [typeIDs |-> ids, id |-> ids[key], err |-> nil]
    ELSE LET l == Cardinality(DOMAIN ids) IN
         IF l >= functionMaxTypes
         THEN [typeIDs |-> ids, id |-> 0,
               err |-> Errorf("too many function types in a store",
                              "too many function types in a store")]
         ELSE LET id == Cardinality(DOMAIN ids)
              IN  [typeIDs |-> (key :> id) @@ ids, id |-> id, err |-> nil]

\* The loop of Store.getFunctionTypeIDs from index i (0-based), `ret` filled so far.
RECURSIVE getFunctionTypeIDsFrom(_, _, _, _)
getFunctionTypeIDsFrom(ids, ts, i, ret) ==
    IF i >= Len(ts)
    THEN [typeIDs |-> ids, ret |-> ret, err |-> nil]
    ELSE LET r == getFunctionTypeID(ids, ts[i + 1]) IN
         IF r.err # nil
         THEN [typeIDs |-> r.typeIDs, ret |-> <<>>, err |-> r.err]
         ELSE getFunctionTypeIDsFrom(r.typeIDs, ts, i + 1, Append(ret, r.id))

\* Store.getFunctionTypeIDs, the section it runs under s.mux.Lock.
getFunctionTypeIDs(ids, ts) == getFunctionTypeIDsFrom(ids, ts, 0, <<>>)

(***************************************************************************)
(* wasm.Store: import resolution                                           *)
(***************************************************************************)

\* ModuleInstance.getExport: [exp, err].
getExport(m, name, et) ==
    IF name \notin DOMAIN m.Exports
    THEN [exp |-> NilPtr,
          err |-> Errorf("is not exported in module",
                         "\"" \o name \o "\" is not exported in module \"" \o m.Name \o "\"")]
    ELSE LET exp == m.Exports[name] IN
         IF exp.Type # et
         THEN [exp |-> NilPtr,
               err |-> Errorf("export is of another type",
                              "export \"" \o name \o "\" in module \"" \o m.Name \o "\" is a "
                                  \o ExternTypeName(exp.Type) \o ", not a " \o ExternTypeName(et))]
         ELSE [exp |-> exp, err |-> nil]

errorInvalidImport(i, idx, err) ==
    Errorf(err.kind,
           "import[" \o ToString(idx) \o "] " \o ExternTypeName(i.Type) \o "[" \o i.Module
               \o "." \o i.Name \o "]: " \o err.msg)

errorMinSizeMismatch(i, idx, expected, actual) ==
    errorInvalidImport(i, idx,
        Errorf("minimum size mismatch",
               "minimum size mismatch: " \o ToString(expected) \o " > " \o ToString(actual)))

errorNoMax(i, idx, expected) ==
    errorInvalidImport(i, idx,
        Errorf("maximum size mismatch, but actual has no max",
               "maximum size mismatch: " \o ToString(expected) \o ", but actual has no max"))

errorMaxSizeMismatch(i, idx, expected, actual) ==
    errorInvalidImport(i, idx,
        Errorf("maximum size mismatch",
               "maximum size mismatch: " \o ToString(expected) \o " < " \o ToString(actual)))

\* case ExternTypeFunc of Store.resolveImports: the error, nil when the import resolves.
resolveFuncImport(module, i, idx, importedFunction) ==
    IF i.DescFunc >= Len(module.TypeSection)
    THEN errorInvalidImport(i, idx,
             Errorf("function type out of range", "function type out of range"))
    ELSE LET expectedType == module.TypeSection[i.DescFunc + 1]
             actualType == importedFunction.Type
         IN  IF ~EqualsSignature(expectedType, actualType.Params, actualType.Results)
             THEN errorInvalidImport(i, idx,
                      Errorf("signature mismatch",
                             "signature mismatch: " \o String(expectedType) \o " != "
                                 \o String(actualType)))
             ELSE nil

\* The mutant of resolveTableImport: a declared max equal to the actual max is refused.
resolveTableImportStrict(i, idx, importedTable) ==
    LET expected == i.DescTable IN
    IF expected.Min > importedTable.Min
    THEN errorMinSizeMismatch(i, idx, expected.Min, importedTable.Min)
    ELSE IF expected.Max # <<>>
         THEN LET expectedMax == expected.Max[1] IN
              IF importedTable.Max = <<>>
              THEN errorNoMax(i, idx, expectedMax)
              ELSE IF expectedMax <= importedTable.Max[1]
                   THEN errorMaxSizeMismatch(i, idx, expectedMax, importedTable.Max[1])
                   ELSE nil
         ELSE nil

\* case ExternTypeTable of Store.resolveImports: the error, nil when the import resolves.
resolveTableImport(i, idx, importedTable) ==
    LET expected == i.DescTable IN
    IF expected.Min > importedTable.Min
    THEN errorMinSizeMismatch(i, idx, expected.Min, importedTable.Min)
    ELSE IF expected.Max # <<>>
         THEN LET expectedMax == expected.Max[1] IN
              IF importedTable.Max = <<>>
              THEN errorNoMax(i, idx, expectedMax)
              ELSE IF expectedMax < importedTable.Max[1]
                   THEN errorMaxSizeMismatch(i, idx, expectedMax, importedTable.Max[1])
                   ELSE nil
         ELSE nil

\* The mutant of resolveMemoryImport: a declared max equal to the actual max is refused.
resolveMemoryImportStrict(i, idx, importedMemory) ==
    LET expected == i.DescMem IN
    IF expected.Min > importedMemory.Min
    THEN errorMinSizeMismatch(i, idx, expected.Min, importedMemory.Min)
    ELSE IF expected.Max <= importedMemory.Max
         THEN errorMaxSizeMismatch(i, idx, expected.Max, importedMemory.Max)
         ELSE nil

\* case ExternTypeMemory of Store.resolveImports: the error, nil when the import resolves.
resolveMemoryImport(i, idx, importedMemory) ==
    LET expected == i.DescMem IN
    IF expected.Min > importedMemory.Min
    THEN errorMinSizeMismatch(i, idx, expected.Min, importedMemory.Min)
    ELSE IF expected.Max < importedMemory.Max
         THEN errorMaxSizeMismatch(i, idx, expected.Max, importedMemory.Max)
         ELSE nil

\* The verb %t of fmt.Errorf
FormatBool(b) == IF b THEN "true" ELSE "false"

\* The mutant of resolveGlobalImport: the mutability is not compared.
resolveGlobalImportAnyMutability(i, idx, importedGlobal) ==
    LET expected == i.DescGlobal IN
    IF expected.ValType # importedGlobal.Type.ValType
    THEN errorInvalidImport(i, idx,
             Errorf("value type mismatch",
                    "value type mismatch: " \o ValueTypeName(expected.ValType) \o " != "
                        \o ValueTypeName(importedGlobal.Type.ValType)))
    ELSE nil

\* case ExternTypeGlobal of Store.resolveImports: the error, nil when the import resolves.
resolveGlobalImport(i, idx, importedGlobal) ==
    LET expected == i.DescGlobal IN
    IF expected.Mutable # importedGlobal.Type.Mutable
    THEN errorInvalidImport(i, idx,
             Errorf("mutability mismatch",
                    "mutability mismatch: " \o FormatBool(expected.Mutable) \o " != "
                        \o FormatBool(importedGlobal.Type.Mutable)))
    ELSE IF expected.ValType # importedGlobal.Type.ValType
         THEN errorInvalidImport(i, idx,
                  Errorf("value type mismatch",
                         "value type mismatch: " \o ValueTypeName(expected.ValType) \o " != "
                             \o ValueTypeName(importedGlobal.Type.ValType)))
         ELSE nil

\* The result of Store.resolveImports; importedMemory is assigned before it is checked.
Imports(fs, gs, ts, mem, err) ==
    [importedFunctions |-> fs, importedGlobals |-> gs, importedTables |-> ts,
     importedMemory |-> mem, err |-> err]

\* The loop of Store.resolveImports from import idx (0-based).
RECURSIVE resolveImportsFrom(_, _, _, _, _)
resolveImportsFrom(mods, mems, module, idx, acc) ==
    IF idx >= Len(module.ImportSection)
    THEN acc
    ELSE LET i == module.ImportSection[idx + 1] IN
         IF i.Module \notin DOMAIN mods
         THEN [acc EXCEPT !.err = Errorf("not instantiated",
                                         "module[" \o i.Module \o "] not instantiated")]
         ELSE LET m == mods[i.Module]
                  e == getExport(m, i.Name, i.Type)
                  imported == e.exp
              IN  IF e.err # nil
                  THEN [acc EXCEPT !.err = e.err]
                  ELSE CASE i.Type = ExternTypeFunc ->
                              LET err == resolveFuncImport(module, i, idx, imported.Function) IN
                              IF err # nil
                              THEN [acc EXCEPT !.err = err]
                              ELSE resolveImportsFrom(mods, mems, module, idx + 1,
                                       [acc EXCEPT !.importedFunctions =
                                                       Append(@, imported.Function)])
                         [] i.Type = ExternTypeTable ->
                              LET err == resolveTableImport(i, idx, imported.Table) IN
                              IF err # nil
                              THEN [acc EXCEPT !.err = err]
                              ELSE resolveImportsFrom(mods, mems, module, idx + 1,
                                       [acc EXCEPT !.importedTables = Append(@, imported.Table)])
                         [] i.Type = ExternTypeMemory ->
                              LET err == resolveMemoryImport(i, idx, mems[imported.Memory])
                                  acc1 == [acc EXCEPT !.importedMemory = imported.Memory]
                              IN  IF err # nil
                                  THEN [acc1 EXCEPT !.err = err]
                                  ELSE resolveImportsFrom(mods, mems, module, idx + 1, acc1)
                         [] i.Type = ExternTypeGlobal ->
                              LET err == resolveGlobalImport(i, idx, imported.Global) IN
                              IF err # nil
                              THEN [acc EXCEPT !.err = err]
                              ELSE resolveImportsFrom(mods, mems, module, idx + 1,
                                       [acc EXCEPT !.importedGlobals =
                                                       Append(@, imported.Global)])

\* Store.resolveImports, which runs under s.mux.RLock.
resolveImports(mods, mems, module) ==
    resolveImportsFrom(mods, mems, module, 0, Imports(<<>>, <<>>, <<>>, NilMemory, nil))

(***************************************************************************)
(* wasm.Store: building a ModuleInstance                                   *)
(***************************************************************************)

\* Bytes of one memory page, scaled down from 65536.
MemoryPageSize == 2

OpcodeI32Const == "i32.const"
OpcodeGlobalGet == "global.get"

\* executeConstExpression for the opcodes an offset can have. expr.Data holds the
\* immediate already decoded from LEB128: the constant, or the index of the global.
executeConstExpression(globals, expr) ==
    CASE expr.Opcode = OpcodeI32Const -> expr.Data
      [] expr.Opcode = OpcodeGlobalGet -> globals[expr.Data + 1].Val

\* Module.buildTables: imported tables, then one TableInstance of Min elements per
\* declared table; fails when an active element segment does not fit its table.
buildTables(module, importedTables, importedGlobals) ==
    LET NewTable(t) == [Type |-> t.Type, Min |-> t.Min, Max |-> t.Max]
        tables == importedTables
                      \o [k \in 1..Len(module.TableSection) |-> NewTable(module.TableSection[k])]
        OutOfBounds(e) ==
            executeConstExpression(importedGlobals, e.OffsetExpr) + Len(e.Init)
                > tables[e.TableIndex + 1].Min
    IN  IF \E k \in 1..Len(module.ElementSection) : OutOfBounds(module.ElementSection[k])
        THEN [tables |-> <<>>, err |-> Errorf("element out of bounds", "element out of bounds")]
        ELSE [tables |-> tables, err |-> nil]

\* Module.buildGlobals: each global's initialiser evaluated over the imported globals.
buildGlobals(module, importedGlobals) ==
    LET NewGlobal(g) == [Type |-> g.Type, Val |-> executeConstExpression(importedGlobals, g.Init)]
    IN  [k \in 1..Len(module.GlobalSection) |-> NewGlobal(module.GlobalSection[k])]

\* Module.buildMemory: the MemoryInstance of the declared memory, NilPtr without one.
buildMemory(module) ==
    IF module.MemorySection = <<>>
    THEN NilPtr
    ELSE LET mem == module.MemorySection[1]
         IN  [Min |-> mem.Min, Max |-> mem.Max,
              Buffer |-> [k \in 1..(mem.Min * MemoryPageSize) |-> 0]]

\* Module.buildFunctions: one FunctionInstance per entry of the function section.
buildFunctions(module, name) ==
    [k \in 1..Len(module.FunctionSection) |->
        [Type |-> module.TypeSection[module.FunctionSection[k] + 1],
         moduleName |-> name,
         Idx |-> Len(SelectSeq(module.ImportSection, LAMBDA i : i.Type = ExternTypeFunc)) + k - 1,
         TypeID |-> 0]]

\* ModuleInstance.buildExports
buildExports(m, exports) ==
    LET ExportOf(exp) ==
            CASE exp.Type = ExternTypeFunc ->
                    [Type |-> exp.Type, Function |-> m.Functions[exp.Index + 1],
                     Global |-> NilPtr, Memory |-> NilMemory, Table |-> NilPtr]
              [] exp.Type = ExternTypeGlobal ->
                    [Type |-> exp.Type, Function |-> NilPtr,
                     Global |-> m.Globals[exp.Index + 1], Memory |-> NilMemory, Table |-> NilPtr]
              [] exp.Type = ExternTypeMemory ->
                    [Type |-> exp.Type, Function |-> NilPtr,
                     Global |-> NilPtr, Memory |-> m.Memory, Table |-> NilPtr]
              [] exp.Type = ExternTypeTable ->
                    [Type |-> exp.Type, Function |-> NilPtr,
                     Global |-> NilPtr, Memory |-> NilMemory, Table |-> m.Tables[exp.Index + 1]]
        names == {exports[k].Name : k \in 1..Len(exports)}
        Last(n) == CHOOSE k \in 1..Len(exports) :
                       /\ exports[k].Name = n
                       /\ \A j \in 1..Len(exports) : exports[j].Name = n => j <= k
    IN  [n \in names |-> ExportOf(exports[Last(n)])]

\* ModuleInstance.buildDataInstances
buildDataInstances(data) == [k \in 1..Len(data) |-> data[k].Init]

\* The mutant of addSections: the local functions come before the imported ones.
addSectionsLocalsFirst(m, module, importedFunctions, functions, importedGlobals, globals, tables, memory, importedMemory, types, ids) ==
    LET fs == [k \in 1..Len(functions) |->
                  [functions[k] EXCEPT !.TypeID = ids[module.FunctionSection[k] + 1]]]
                  \o importedFunctions
        m1 == [m EXCEPT !.Types = types, !.TypeIDs = ids, !.Functions = fs,
                        !.Globals = importedGlobals \o globals,
                        !.Tables = tables,
                        !.Memory = IF importedMemory # NilMemory THEN importedMemory ELSE memory]
        m2 == [m1 EXCEPT !.Exports = buildExports(m1, module.ExportSection)]
    IN  [m2 EXCEPT !.DataInstances = buildDataInstances(module.DataSection)]

\* ModuleInstance.addSections. `memory` and `importedMemory` are the parameters in the
\* order of the declaration: Instantiate passes the imported memory as `memory`.
addSections(m, module, importedFunctions, functions, importedGlobals, globals, tables, memory, importedMemory, types, ids) ==
    LET fs == importedFunctions
                  \o [k \in 1..Len(functions) |->
                         [functions[k] EXCEPT !.TypeID = ids[module.FunctionSection[k] + 1]]]
        m1 == [m EXCEPT !.Types = types, !.TypeIDs = ids, !.Functions = fs,
                        !.Globals = importedGlobals \o globals,
                        !.Tables = tables,
                        !.Memory = IF importedMemory # NilMemory THEN importedMemory ELSE memory]
        m2 == [m1 EXCEPT !.Exports = buildExports(m1, module.ExportSection)]
    IN  [m2 EXCEPT !.DataInstances = buildDataInstances(module.DataSection)]

\* The mutant of validateData: the loop returns after the first segment.
validateDataFirstOnly(m, mems, data) ==
    LET OutOfBounds(d) ==
            /\ ~d.Passive
            /\ LET offset == executeConstExpression(m.Globals, d.OffsetExpression)
                   ceil == offset + Len(d.Init)
               IN  offset < 0 \/ ceil > Len(mems[m.Memory].Buffer)
    IN  IF data # <<>> /\ OutOfBounds(data[1])
        THEN Errorf("out of bounds memory access", "out of bounds memory access")
        ELSE nil

\* ModuleInstance.validateData: the error, nil when every active segment is in bounds.
validateData(m, mems, data) ==
    LET OutOfBounds(d) ==
            /\ ~d.Passive
            /\ LET offset == executeConstExpression(m.Globals, d.OffsetExpression)
                   ceil == offset + Len(d.Init)
               IN  offset < 0 \/ ceil > Len(mems[m.Memory].Buffer)
    IN  IF \E k \in 1..Len(data) : OutOfBounds(data[k])
        THEN Errorf("out of bounds memory access", "out of bounds memory access")
        ELSE nil

\* copy(m.Memory.Buffer[offset:], d.Init)
CopyAt(buffer, offset, init) ==
    [k \in 1..Len(buffer) |->
        IF k > offset /\ k - offset <= Len(init) THEN init[k - offset] ELSE buffer[k]]

\* ModuleInstance.applyData from segment k (1-based): the buffer after the copies.
RECURSIVE applyDataFrom(_, _, _, _)
applyDataFrom(m, buffer, data, k) ==
    IF k > Len(data)
    THEN buffer
    ELSE IF data[k].Passive
         THEN applyDataFrom(m, buffer, data, k + 1)
         ELSE applyDataFrom(m,
                  CopyAt(buffer, executeConstExpression(m.Globals, data[k].OffsetExpression),
                         data[k].Init),
                  data, k + 1)

\* ModuleInstance.applyData: the memory heap after the copies.
applyData(m, mems, data) ==
    IF m.Memory = NilMemory
    THEN mems
    ELSE [mems EXCEPT ![m.Memory].Buffer = applyDataFrom(m, @, data, 1)]

(***************************************************************************)
(* The modules and names Store.Instantiate is called with                  *)
(***************************************************************************)

v_v == FunctionType(<<>>, <<>>)
i32_i32 == FunctionType(<<ValueTypeI32>>, <<ValueTypeI32>>)
i64_v == FunctionType(<<ValueTypeI64>>, <<>>)
v_f64 == FunctionType(<<>>, <<ValueTypeF64>>)
v_i32 == FunctionType(<<>>, <<ValueTypeI32>>)

I32Const(n) == [Opcode |-> OpcodeI32Const, Data |-> n]

EmptyModule ==
    [TypeSection |-> <<>>, ImportSection |-> <<>>, FunctionSection |-> <<>>,
     TableSection |-> <<>>, MemorySection |-> <<>>, GlobalSection |-> <<>>,
     ExportSection |-> <<>>, StartSection |-> <<>>, ElementSection |-> <<>>,
     DataSection |-> <<>>]

NoDesc == [DescFunc |-> 0, DescTable |-> NilPtr, DescMem |-> NilPtr, DescGlobal |-> NilPtr]

ImportFunc(mod, name, typeIndex) ==
    [NoDesc EXCEPT !.DescFunc = typeIndex]
        @@ [Type |-> ExternTypeFunc, Module |-> mod, Name |-> name]

ImportTable(mod, name, table) ==
    [NoDesc EXCEPT !.DescTable = table]
        @@ [Type |-> ExternTypeTable, Module |-> mod, Name |-> name]

ImportMemory(mod, name, mem) ==
    [NoDesc EXCEPT !.DescMem = mem]
        @@ [Type |-> ExternTypeMemory, Module |-> mod, Name |-> name]

Export(name, type, index) == [Name |-> name, Type |-> type, Index |-> index]

\* Exports a function, a table, a memory and a global; has a start function and an
\* active data segment that fits its memory.
ExporterModule ==
    [EmptyModule EXCEPT
        !.TypeSection = <<v_v, i32_i32>>,
        !.FunctionSection = <<0, 1>>,
        !.TableSection = <<[Type |-> RefTypeFuncref, Min |-> 1, Max |-> <<2>>]>>,
        !.MemorySection = <<ExportMemoryWithMax(1, 2)>>,
        !.GlobalSection = <<[Type |-> [ValType |-> ValueTypeI32, Mutable |-> FALSE],
                             Init |-> I32Const(1)]>>,
        !.ExportSection = <<Export("f", ExternTypeFunc, 1), Export("mem", ExternTypeMemory, 0),
                            Export("tab", ExternTypeTable, 0), Export("g", ExternTypeGlobal, 0)>>,
        !.StartSection = <<0>>,
        !.DataSection = <<[Passive |-> FALSE, OffsetExpression |-> I32Const(0), Init |-> <<7>>]>>]

\* Imports the function and the memory of module "a", and writes into that memory.
ImporterModule ==
    [EmptyModule EXCEPT
        !.TypeSection = <<i32_i32, i64_v>>,
        !.ImportSection = <<ImportFunc("a", "f", 0),
                            ImportMemory("a", "mem", ExportMemory(1, MemoryLimitPages))>>,
        !.FunctionSection = <<1>>,
        !.ExportSection = <<Export("h", ExternTypeFunc, 1)>>,
        !.StartSection = <<1>>,
        !.DataSection = <<[Passive |-> FALSE, OffsetExpression |-> I32Const(1), Init |-> <<9>>]>>]

\* Its active data segment ends past its memory.
DataOutOfBoundsModule ==
    [EmptyModule EXCEPT
        !.TypeSection = <<v_v, v_f64>>,
        !.FunctionSection = <<1, 0>>,
        !.MemorySection = <<ExportMemory(1, MemoryLimitPages)>>,
        !.DataSection = <<[Passive |-> FALSE, OffsetExpression |-> I32Const(MemoryPageSize),
                           Init |-> <<1>>]>>]

\* Its active element segment ends past its table.
ElementOutOfBoundsModule ==
    [EmptyModule EXCEPT
        !.TypeSection = <<v_i32>>,
        !.FunctionSection = <<0>>,
        !.TableSection = <<[Type |-> RefTypeFuncref, Min |-> 1, Max |-> <<>>]>>,
        !.ElementSection = <<[TableIndex |-> 0, OffsetExpr |-> I32Const(1), Init |-> <<0>>]>>]

ImportGlobal(mod, name, type) ==
    [NoDesc EXCEPT !.DescGlobal = type]
        @@ [Type |-> ExternTypeGlobal, Module |-> mod, Name |-> name]

\* A module that declares the type i64_v and whose only import is i.
ImportingModule(i) == [EmptyModule EXCEPT !.TypeSection = <<i64_v>>, !.ImportSection = <<i>>]

\* Modules with one import that module "a", an ExporterModule, cannot satisfy: the
\* exporting module is not published; the name is not exported; the export is of
\* another kind; the signature differs; the mutability differs; the value type differs.
UnresolvableModules ==
    <<ImportingModule(ImportFunc("z", "f", 0)),
      ImportingModule(ImportFunc("a", "nope", 0)),
      ImportingModule(ImportFunc("a", "mem", 0)),
      ImportingModule(ImportFunc("a", "f", 0)),
      ImportingModule(ImportGlobal("a", "g", [ValType |-> ValueTypeI32, Mutable |-> TRUE])),
      ImportingModule(ImportGlobal("a", "g", [ValType |-> ValueTypeI64, Mutable |-> FALSE]))>>

DataSegment(offset, init) ==
    [Passive |-> FALSE, OffsetExpression |-> I32Const(offset), Init |-> init]

PassiveDataSegment(init) ==
    [Passive |-> TRUE, OffsetExpression |-> I32Const(0), Init |-> init]

\* Data sections for a memory of one page: every segment in bounds; the second
\* segment starting at the end of the memory; a negative offset after a segment in
\* bounds; a segment that starts in bounds and ends past the memory, after a passive
\* one.
DataSections ==
    <<<<DataSegment(0, <<5>>), DataSegment(MemoryPageSize - 1, <<6>>)>>,
      <<DataSegment(0, <<5>>), DataSegment(MemoryPageSize, <<6>>)>>,
      <<DataSegment(1, <<5>>), DataSegment(-1, <<6>>)>>,
      <<PassiveDataSegment(<<4, 4, 4, 4>>), DataSegment(MemoryPageSize - 1, <<5, 6>>)>>>>

\* A module that writes the data section into a memory of its own.
OwnMemoryDataModule(data) ==
    [EmptyModule EXCEPT !.MemorySection = <<ExportMemoryWithMax(1, 1)>>, !.DataSection = data]

\* A module that writes the data section into the memory of module "a".
ImportedMemoryDataModule(data) ==
    [EmptyModule EXCEPT
        !.ImportSection = <<ImportMemory("a", "mem", ExportMemory(1, MemoryLimitPages))>>,
        !.DataSection = data]

\* The modules that SpecData instantiates, besides ImporterModule.
DataModules ==
    [k \in 1..(2 * Len(DataSections)) |->
        IF k <= Len(DataSections)
        THEN OwnMemoryDataModule(DataSections[k])
        ELSE ImportedMemoryDataModule(DataSections[k - Len(DataSections)])]

\* The modules that SpecStore instantiates.
StoreModules == <<ExporterModule, ImporterModule, DataOutOfBoundsModule, ElementOutOfBoundsModule>>

\* A *Module is an index into Modules.
Modules == StoreModules \o UnresolvableModules \o DataModules

ModuleNames == {"a", "b"}

(***************************************************************************)
(* Store.Instantiate, one goroutine per call                               *)
(***************************************************************************)

NoImports == Imports(<<>>, <<>>, <<>>, NilMemory, nil)

\* What a goroutine holds of Store.mux: nothing. SpecMux alone tracks the lock.
NoLock == [mode |-> "", pc |-> ""]

\* The frame of a goroutine that has not called yet.
IdleFrame ==
    [pc |-> "idle", module |-> 0, name |-> "", typeIDs |-> <<>>, imports |-> NoImports,
     tables |-> <<>>, m |-> NilPtr, err |-> nil, ret |-> FALSE, reserved |-> FALSE,
     mux |-> NoLock]

\* NewStore
NewStore ==
    /\ moduleNames = {}
    /\ modules = <<>>
    /\ typeIDs = <<>>

\* Store.Instantiate returns: the frame keeps what the caller sees.
Return(frame, err, ret) ==
    [IdleFrame EXCEPT !.pc = "done", !.module = frame.module, !.name = frame.name,
                      !.err = err, !.ret = ret, !.reserved = frame.reserved]

Remove(f, k) == [x \in DOMAIN f \ {k} |-> f[x]]

\* What an action of the Store leaves alone.
StoreFrame ==
    UNCHANGED resolved /\ UNCHANGED rcVars /\ UNCHANGED mcVars /\ UNCHANGED binaryVars

\* Engine.CompileModule, which the caller runs before Store.Instantiate: the module
\* enters the engine's cache. Goroutines are numbered in the order they start.
CompileModule(p, module) ==
    /\ calls[p].pc = "idle"
    /\ IF p = 1 THEN TRUE ELSE calls[p - 1].pc # "idle"
    /\ cachedModules' = cachedModules \cup {module}
    /\ calls' = [calls EXCEPT ![p] = [@ EXCEPT !.pc = "compiled", !.module = module]]
    /\ UNCHANGED <<moduleNames, modules, typeIDs, memories>>
    /\ StoreFrame

\* The mutant of requireModuleName: the name is reserved without the check.
requireModuleNameUnchecked(names, moduleName) ==
    [moduleNames |-> names \cup {moduleName}, err |-> nil]

\* The mutant of requireModuleName: the refused call drops the reservation it met.
requireModuleNameReleasing(names, moduleName) ==
    IF moduleName \in names
    THEN [moduleNames |-> names \ {moduleName},
          err |-> Errorf("has already been instantiated",
                         "module " \o moduleName \o " has already been instantiated")]
    ELSE [moduleNames |-> names \cup {moduleName}, err |-> nil]

\* Store.requireModuleName: [moduleNames after the call, the error].
requireModuleName(names, moduleName) ==
    IF moduleName \in names
    THEN [moduleNames |-> names,
          err |-> Errorf("has already been instantiated",
                         "module " \o moduleName \o " has already been instantiated")]
    ELSE [moduleNames |-> names \cup {moduleName}, err |-> nil]

\* Store.Instantiate up to requireModuleName.
RequireModuleName(p, name) ==
    /\ calls[p].pc = "compiled"
    /\ LET r == requireModuleName(moduleNames, name) IN
       /\ moduleNames' = r.moduleNames
       /\ calls' = [calls EXCEPT ![p] =
                       IF r.err # nil
                       THEN Return([@ EXCEPT !.name = name], r.err, FALSE)
                       ELSE [@ EXCEPT !.pc = "getFunctionTypeIDs", !.name = name,
                                      !.reserved = TRUE]]
    /\ UNCHANGED <<modules, typeIDs, memories, cachedModules>>
    /\ StoreFrame

\* s.getFunctionTypeIDs(module.TypeSection)
GetFunctionTypeIDs(p) ==
    /\ calls[p].pc = "getFunctionTypeIDs"
    /\ LET r == getFunctionTypeIDs(typeIDs, Modules[calls[p].module].TypeSection) IN
       /\ typeIDs' = r.typeIDs
       /\ calls' = [calls EXCEPT ![p] =
                       IF r.err # nil
                       THEN [@ EXCEPT !.pc = "deleteModule", !.err = r.err]
                       ELSE [@ EXCEPT !.pc = "resolveImports", !.typeIDs = r.ret]]
    /\ UNCHANGED <<moduleNames, modules, memories, cachedModules>>
    /\ StoreFrame

\* s.resolveImports(module)
ResolveImports(p) ==
    /\ calls[p].pc = "resolveImports"
    /\ LET r == resolveImports(modules, memories, Modules[calls[p].module]) IN
       calls' = [calls EXCEPT ![p] =
                    IF r.err # nil
                    THEN [@ EXCEPT !.pc = "deleteModule", !.err = r.err]
                    ELSE [@ EXCEPT !.pc = "buildTables", !.imports = r]]
    /\ UNCHANGED <<moduleNames, modules, typeIDs, memories, cachedModules>>
    /\ StoreFrame

\* m := &ModuleInstance{Name: name}
ModuleInstance(name) ==
    [Name |-> name, Exports |-> <<>>, Functions |-> <<>>, Globals |-> <<>>,
     Memory |-> NilMemory, Tables |-> <<>>, Types |-> <<>>, TypeIDs |-> <<>>,
     DataInstances |-> <<>>, Engine |-> FALSE, CallCtx |-> FALSE]

\* module.buildTables and, when it succeeds, buildGlobals, buildMemory, buildFunctions
\* and m.addSections. The new MemoryInstance of goroutine p is memories[p].
BuildInstance(p) ==
    /\ calls[p].pc = "buildTables"
    /\ LET f == calls[p]
           module == Modules[f.module]
           t == buildTables(module, f.imports.importedTables, f.imports.importedGlobals)
           globals == buildGlobals(module, f.imports.importedGlobals)
           memory == buildMemory(module)
           functions == buildFunctions(module, f.name)
           m0 == ModuleInstance(f.name)
       IN  IF t.err # nil
           THEN /\ calls' = [calls EXCEPT ![p] = [@ EXCEPT !.pc = "deleteModule", !.err = t.err]]
                /\ UNCHANGED memories
           ELSE /\ memories' = IF memory = NilPtr THEN memories ELSE (p :> memory) @@ memories
                /\ calls' = [calls EXCEPT ![p] =
                       [@ EXCEPT !.pc = "validateData",
                                 !.tables = t.tables,
                                 !.m = addSections(m0, module, f.imports.importedFunctions,
                                           functions, f.imports.importedGlobals, globals,
                                           t.tables, f.imports.importedMemory,
                                           IF memory = NilPtr THEN NilMemory ELSE p,
                                           module.TypeSection, f.typeIDs)]]
    /\ UNCHANGED <<moduleNames, modules, typeIDs, cachedModules>>
    /\ StoreFrame

\* The mutant of the validateData step: the segments are not checked.
ValidateDataSkipped(p) ==
    /\ calls[p].pc = "validateData"
    /\ calls' = [calls EXCEPT ![p] = [@ EXCEPT !.pc = "NewModuleEngine"]]
    /\ UNCHANGED <<moduleNames, modules, typeIDs, memories, cachedModules>>
    /\ StoreFrame

\* m.validateData(module.DataSection)
ValidateData(p) ==
    /\ calls[p].pc = "validateData"
    /\ LET err == validateData(calls[p].m, memories, Modules[calls[p].module].DataSection) IN
       calls' = [calls EXCEPT ![p] =
                    IF err # nil
                    THEN [@ EXCEPT !.pc = "deleteModule", !.err = err]
                    ELSE [@ EXCEPT !.pc = "NewModuleEngine"]]
    /\ UNCHANGED <<moduleNames, modules, typeIDs, memories, cachedModules>>
    /\ StoreFrame

\* s.Engine.NewModuleEngine(...): the engine decides whether it fails. On failure
\* Instantiate returns at once; the objects it built become unreachable.
NewModuleEngine(p, fails) ==
    /\ calls[p].pc = "NewModuleEngine"
    /\ IF fails
       THEN /\ calls' = [calls EXCEPT ![p] =
                            Return(@, Errorf("compilation failed", "compilation failed"), FALSE)]
            /\ memories' = Remove(memories, p)
       ELSE /\ calls' = [calls EXCEPT ![p] = [@ EXCEPT !.pc = "applyData", !.m.Engine = TRUE]]
            /\ UNCHANGED memories
    /\ UNCHANGED <<moduleNames, modules, typeIDs, cachedModules>>
    /\ StoreFrame

\* m.buildElementInstances, m.applyData and NewCallContext
ApplyData(p) ==
    /\ calls[p].pc = "applyData"
    /\ memories' = applyData(calls[p].m, memories, Modules[calls[p].module].DataSection)
    /\ calls' = [calls EXCEPT ![p] =
                    [@ EXCEPT !.pc = IF Modules[calls[p].module].StartSection # <<>>
                                     THEN "start" ELSE "addModule",
                              !.m.CallCtx = TRUE]]
    /\ UNCHANGED <<moduleNames, modules, typeIDs, cachedModules>>
    /\ StoreFrame

\* The mutant of the start step: the module is published before its start function runs.
StartPublished(p, fails) ==
    /\ calls[p].pc = "start"
    /\ modules' = (calls[p].m.Name :> calls[p].m) @@ modules
    /\ calls' = [calls EXCEPT ![p] =
                    IF fails
                    THEN [@ EXCEPT !.pc = "deleteModule",
                                   !.err = Errorf("start failed", "start failed")]
                    ELSE [@ EXCEPT !.pc = "addModule"]]
    /\ UNCHANGED <<moduleNames, typeIDs, memories, cachedModules>>
    /\ StoreFrame

\* f.Module.Engine.Call of the start function: the function decides whether it fails.
Start(p, fails) ==
    /\ calls[p].pc = "start"
    /\ calls' = [calls EXCEPT ![p] =
                    IF fails
                    THEN [@ EXCEPT !.pc = "deleteModule",
                                   !.err = Errorf("start failed", "start failed")]
                    ELSE [@ EXCEPT !.pc = "addModule"]]
    /\ UNCHANGED <<moduleNames, modules, typeIDs, memories, cachedModules>>
    /\ StoreFrame

\* Store.addModule: s.modules after the call.
addModule(mods, m) == (m.Name :> m) @@ Remove(mods, m.Name)

\* s.addModule(m); return m.CallCtx, nil
AddModule(p) ==
    /\ calls[p].pc = "addModule"
    /\ modules' = addModule(modules, calls[p].m)
    /\ calls' = [calls EXCEPT ![p] = Return(@, nil, TRUE)]
    /\ UNCHANGED <<moduleNames, typeIDs, memories, cachedModules>>
    /\ StoreFrame

\* The mutant of deleteModule: the module is unpublished, the name stays reserved.
deleteModuleKeepName(mods, names, cache, moduleName) ==
    [modules |-> Remove(mods, moduleName), moduleNames |-> names, cachedModules |-> cache]

\* Store.deleteModule: [modules, moduleNames] after the call; the engine's cache is
\* not among what it touches.
deleteModule(mods, names, cache, moduleName) ==
    [modules |-> Remove(mods, moduleName), moduleNames |-> names \ {moduleName},
     cachedModules |-> cache]

\* s.deleteModule(name); return nil, err. What the failed call built is unreachable.
DeleteModule(p) ==
    /\ calls[p].pc = "deleteModule"
    /\ LET r == deleteModule(modules, moduleNames, cachedModules, calls[p].name) IN
       /\ modules' = r.modules
       /\ moduleNames' = r.moduleNames
       /\ cachedModules' = r.cachedModules
    /\ memories' = Remove(memories, p)
    /\ calls' = [calls EXCEPT ![p] = Return([@ EXCEPT !.reserved = FALSE], calls[p].err, FALSE)]
    /\ UNCHANGED typeIDs
    /\ StoreFrame

\* Close without the call of DeleteCompiledModule.
CloseWithoutDelete(p) ==
    /\ calls[p].pc = "done"
    /\ calls' = [calls EXCEPT ![p] = [@ EXCEPT !.pc = "closed"]]
    /\ UNCHANGED <<moduleNames, modules, typeIDs, memories, cachedModules>>
    /\ StoreFrame

\* compiledCode.Close, once Instantiate has returned: c.compiledEngine.DeleteCompiledModule
Close(p) ==
    /\ calls[p].pc = "done"
    /\ cachedModules' = cachedModules \ {calls[p].module}
    /\ calls' = [calls EXCEPT ![p] = [@ EXCEPT !.pc = "closed"]]
    /\ UNCHANGED <<moduleNames, modules, typeIDs, memories>>
    /\ StoreFrame

StoreInit ==
    /\ NewStore
    /\ memories = <<>>
    /\ cachedModules = {}
    /\ calls = [p \in Procs |-> IdleFrame]
    /\ resolved = Unused
    /\ RuntimeConfigUnused
    /\ ModuleConfigUnused
    /\ BinaryUnused

StoreNext ==
    \/ \E p \in Procs, module \in 1..Len(StoreModules) : CompileModule(p, module)
    \/ \E p \in Procs, name \in ModuleNames : RequireModuleName(p, name)
    \/ \E p \in Procs : GetFunctionTypeIDs(p)
    \/ \E p \in Procs : ResolveImports(p)
    \/ \E p \in Procs : BuildInstance(p)
    \/ \E p \in Procs : ValidateData(p)
    \/ \E p \in Procs, fails \in BOOLEAN : NewModuleEngine(p, fails)
    \/ \E p \in Procs : ApplyData(p)
    \/ \E p \in Procs, fails \in BOOLEAN : Start(p, fails)
    \/ \E p \in Procs : AddModule(p)
    \/ \E p \in Procs : DeleteModule(p)
    \/ \E p \in Procs : Close(p)

SpecStore == StoreInit /\ [][StoreNext]_vars

(***************************************************************************)
(* Properties of Store.Instantiate                                         *)
(***************************************************************************)

Returned(p) == calls[p].pc \in {"done", "closed"}

\* The goroutine is inside Store.Instantiate, past requireModuleName.
InFlight(p) == calls[p].pc \notin {"idle", "compiled", "done", "closed"}

DuplicateName(p) == calls[p].err.kind = "has already been instantiated"

\* The calls that passed name n to Store.Instantiate.
CallsOf(n) == {p \in Procs : calls[p].name = n}

\* C1: of the calls to Store.Instantiate that use one name, and whose modules
\* instantiate successfully otherwise, exactly one returns a CallContext and every
\* other one returns the duplicate-name error; at no time do two calls hold the
\* reservation of one name.
C1_ExactlyOneSucceeds ==
    \A n \in ModuleNames :
        /\ Cardinality({p \in CallsOf(n) : calls[p].reserved}) <= 1
        /\ (/\ CallsOf(n) # {}
            /\ \A p \in CallsOf(n) :
                   Returned(p) /\ (calls[p].err = nil \/ DuplicateName(p)))
           => /\ Cardinality({p \in CallsOf(n) : calls[p].ret /\ calls[p].err = nil}) = 1
              /\ \A p \in CallsOf(n) : ~calls[p].ret => DuplicateName(p)

\* Two calls used one name: one returned a CallContext, the other was refused the
\* name with the duplicate-name error.
C1_Witness ==
    \E p, q \in Procs :
        /\ p # q
        /\ calls[p].name = calls[q].name
        /\ Returned(p) /\ calls[p].ret /\ calls[p].err = nil
        /\ Returned(q) /\ DuplicateName(q) /\ ~calls[q].ret

\* C2: a call to Store.Instantiate that fails after it reserved the name leaves no
\* reservation behind: every reserved name belongs to a call that is still running
\* or that returned a CallContext.
C2_NoReservationLeftBehind ==
    \A n \in moduleNames :
        \E p \in CallsOf(n) : InFlight(p) \/ (Returned(p) /\ calls[p].err = nil)

StartFailed(p) == calls[p].pc = "deleteModule" /\ calls[p].err.kind = "start failed"

FunctionInstances ==
    UNION {{modules[n].Functions[k] : k \in 1..Len(modules[n].Functions)} : n \in DOMAIN modules}
        \cup UNION {{calls[p].m.Functions[k] : k \in 1..Len(calls[p].m.Functions)} :
                       p \in {q \in Procs : calls[q].m # NilPtr}}

\* C6: two function instances of a Store carry the same FunctionTypeID if and only
\* if their FunctionTypes have equal parameter and result sequences.
C6_TypeIDIffEqualTypes ==
    \A f, g \in FunctionInstances :
        (f.TypeID = g.TypeID) <=> (f.Type.Params = g.Type.Params /\ f.Type.Results = g.Type.Results)

\* Two published modules declare an equal type each, and a different one.
C6_Witness ==
    /\ DOMAIN modules = ModuleNames
    /\ \E f, g \in FunctionInstances :
           f.moduleName # g.moduleName /\ f.Type = g.Type /\ f.TypeID = g.TypeID
    /\ \E f, g \in FunctionInstances :
           f.moduleName # g.moduleName /\ f.Type # g.Type /\ f.TypeID # g.TypeID

(***************************************************************************)
(* Store.Instantiate of importing modules, module "a" being published      *)
(***************************************************************************)

\* The *MemoryInstance of module "a": no goroutine of Procs allocated it.
ExporterMemory == NumProcs + 1

\* What Store.Instantiate(ExporterModule, "a") leaves in a new Store.
PublishedExporter ==
    LET module == ExporterModule
        ids == getFunctionTypeIDs(<<>>, module.TypeSection)
        t == buildTables(module, <<>>, <<>>)
        m == addSections(ModuleInstance("a"), module, <<>>, buildFunctions(module, "a"), <<>>,
                         buildGlobals(module, <<>>), t.tables, NilMemory, ExporterMemory,
                         module.TypeSection, ids.ret)
    IN  [typeIDs |-> ids.typeIDs,
         m |-> [m EXCEPT !.Engine = TRUE, !.CallCtx = TRUE],
         memories |-> applyData(m, (ExporterMemory :> buildMemory(module)), module.DataSection)]

\* The modules instantiated next: the importer that resolves and those that do not.
ImportingModules ==
    {2} \cup (Len(StoreModules) + 1)..(Len(StoreModules) + Len(UnresolvableModules))

ImportErrorsInit ==
    /\ moduleNames = {"a"}
    /\ modules = addModule(<<>>, PublishedExporter.m)
    /\ typeIDs = PublishedExporter.typeIDs
    /\ memories = PublishedExporter.memories
    /\ cachedModules = {1}
    /\ calls = [p \in Procs |-> IdleFrame]
    /\ resolved = Unused
    /\ RuntimeConfigUnused
    /\ ModuleConfigUnused
    /\ BinaryUnused

ImportErrorsNext ==
    \/ \E p \in Procs, module \in ImportingModules : CompileModule(p, module)
    \/ \E p \in Procs, name \in ModuleNames : RequireModuleName(p, name)
    \/ \E p \in Procs : GetFunctionTypeIDs(p)
    \/ \E p \in Procs : ResolveImports(p)
    \/ \E p \in Procs : BuildInstance(p)
    \/ \E p \in Procs : ValidateData(p)
    \/ \E p \in Procs, fails \in BOOLEAN : NewModuleEngine(p, fails)
    \/ \E p \in Procs : ApplyData(p)
    \/ \E p \in Procs, fails \in BOOLEAN : Start(p, fails)
    \/ \E p \in Procs : AddModule(p)
    \/ \E p \in Procs : DeleteModule(p)
    \/ \E p \in Procs : Close(p)

SpecImportErrors == ImportErrorsInit /\ [][ImportErrorsNext]_vars

\* The errors of Store.resolveImports that C11 names.
ImportErrors ==
    {"not instantiated", "is not exported in module", "export is of another type",
     "signature mismatch", "mutability mismatch", "value type mismatch"}

\* Module "a" cannot satisfy the import i of `module`: it is not the module named, it
\* does not export the name, the export is of another kind, or its type differs.
CannotResolve(module, i) ==
    \/ i.Module # "a"
    \/ \A k \in 1..Len(ExporterModule.ExportSection) :
           ExporterModule.ExportSection[k].Name # i.Name
    \/ \E k \in 1..Len(ExporterModule.ExportSection) :
           LET e == ExporterModule.ExportSection[k] IN
           /\ e.Name = i.Name
           /\ \/ e.Type # i.Type
              \/ /\ i.Type = ExternTypeFunc
                 /\ module.TypeSection[i.DescFunc + 1]
                        # ExporterModule.TypeSection[ExporterModule.FunctionSection[e.Index + 1] + 1]
              \/ /\ i.Type = ExternTypeGlobal
                 /\ i.DescGlobal # ExporterModule.GlobalSection[e.Index + 1].Type

Unresolvable(module) ==
    \E k \in 1..Len(module.ImportSection) : CannotResolve(module, module.ImportSection[k])

\* C11: a call to Store.Instantiate of a module with an import that cannot be
\* resolved (module not published, name not exported, export of another kind,
\* signature, value type or mutability differing) returns an error and no
\* CallContext, and when it returns its name is neither published nor reserved; the
\* error is one of the import errors unless type interning failed first.
C11_UnresolvedImportFails ==
    [][\A p \in Procs :
          (/\ InFlight(p)
           /\ Unresolvable(Modules[calls[p].module])
           /\ calls'[p].pc = "done")
          => /\ calls'[p].err # nil /\ ~calls'[p].ret
             /\ calls'[p].err.kind \in ImportErrors \cup {"too many function types in a store"}
             /\ calls[p].name \notin DOMAIN modules'
             /\ calls[p].name \notin moduleNames']_vars

\* A call returned the mutability mismatch of its global import and its name is free.
C11_Witness ==
    \E p \in Procs :
        /\ calls[p].pc = "done"
        /\ calls[p].err.kind = "mutability mismatch"
        /\ Unresolvable(Modules[calls[p].module])
        /\ calls[p].name \notin moduleNames
        /\ DOMAIN modules = {"a"}

(***************************************************************************)
(* Store.resolveImports against one published module                       *)
(***************************************************************************)

\* The largest table size the descriptors take.
MaxTableSize == 2

\* wasm.Table: the element type, Min and the optional Max, Min <= Max when present.
TableDescs ==
    {[Type |-> t, Min |-> min, Max |-> max] :
        t \in {RefTypeFuncref, RefTypeExternref}, min \in 0..MaxTableSize,
        max \in {<<>>} \cup {<<x>> : x \in 0..MaxTableSize}}
    \ {d \in [Type : {RefTypeFuncref, RefTypeExternref}, Min : 0..MaxTableSize,
               Max : {<<x>> : x \in 0..MaxTableSize}] : d.Min > d.Max[1]}

\* wasm.Memory as compilation leaves it: declared without a max or with one, and
\* accepted by ValidateMinMax.
MemoryDescs ==
    {mem \in {ExportMemory(min, MemoryLimitPages) : min \in 0..MemoryLimitPages}
                \cup {ExportMemoryWithMax(min, max) :
                          min \in 0..MemoryLimitPages, max \in 0..MemoryLimitPages} :
        ValidateMinMax(mem, MemoryLimitPages)}

\* The module published as "a": it exports its table as "tab", its memory as "mem".
TableMemoryExporter(table, mem) ==
    [EmptyModule EXCEPT
        !.TableSection = <<table>>,
        !.MemorySection = <<mem>>,
        !.ExportSection = <<Export("tab", ExternTypeTable, 0),
                            Export("mem", ExternTypeMemory, 0)>>]

\* A module whose only import is i.
SingleImportModule(i) == [EmptyModule EXCEPT !.ImportSection = <<i>>]

\* The Store after Instantiate("a") of an exporter: its MemoryInstance is memories[1].
ImportsInit ==
    /\ \E table \in TableDescs, mem \in MemoryDescs :
          LET module == TableMemoryExporter(table, mem)
              t == buildTables(module, <<>>, <<>>)
              m == addSections(ModuleInstance("a"), module, <<>>, <<>>, <<>>, <<>>, t.tables,
                               NilMemory, 1, <<>>, <<>>)
          IN  /\ modules = addModule(<<>>, m)
              /\ memories = (1 :> buildMemory(module))
    /\ moduleNames = {"a"}
    /\ typeIDs = <<>>
    /\ cachedModules = {}
    /\ calls = Unused
    /\ resolved = [kind |-> "", import |-> NilPtr, r |-> NoImports]
    /\ RuntimeConfigUnused
    /\ ModuleConfigUnused
    /\ BinaryUnused

\* s.resolveImports(module) of a module that imports the table "a"."tab".
ImportsResolveTable(desc) ==
    /\ LET i == ImportTable("a", "tab", desc) IN
       resolved' = [kind |-> ExternTypeTable, import |-> i,
                    r |-> resolveImports(modules, memories, SingleImportModule(i))]
    /\ UNCHANGED <<moduleNames, modules, typeIDs, memories, cachedModules, calls>>
    /\ UNCHANGED rcVars /\ UNCHANGED mcVars /\ UNCHANGED binaryVars

\* s.resolveImports(module) of a module that imports the memory "a"."mem".
ImportsResolveMemory(desc) ==
    /\ LET i == ImportMemory("a", "mem", desc) IN
       resolved' = [kind |-> ExternTypeMemory, import |-> i,
                    r |-> resolveImports(modules, memories, SingleImportModule(i))]
    /\ UNCHANGED <<moduleNames, modules, typeIDs, memories, cachedModules, calls>>
    /\ UNCHANGED rcVars /\ UNCHANGED mcVars /\ UNCHANGED binaryVars

ImportsNext ==
    \/ \E desc \in TableDescs : ImportsResolveTable(desc)
    \/ \E desc \in MemoryDescs : ImportsResolveMemory(desc)

SpecImports == ImportsInit /\ [][ImportsNext]_vars

(***************************************************************************)
(* Properties of Store.resolveImports                                      *)
(***************************************************************************)

\* The table and the memory that module "a" exports.
ExportedTable == modules["a"].Exports["tab"].Table
ExportedMemory == memories[modules["a"].Exports["mem"].Memory]

LimitErrors ==
    {"minimum size mismatch", "maximum size mismatch, but actual has no max",
     "maximum size mismatch"}

\* C8: resolving a table import whose declared element type differs from the
\* element type of the exported table fails with an error.
C8_TableTypeMismatchFails ==
    (resolved.kind = ExternTypeTable /\ resolved.import.DescTable.Type # ExportedTable.Type)
        => resolved.r.err # nil

\* C9: a table import fails with a minimum-size mismatch when its Min is above the
\* exported Min; fails when it declares a Max and the exported table has none; fails
\* when both have a Max and the exported one is larger; and raises none of the limit
\* errors in every other case, in particular when it declares no Max.
C9_TableLimits ==
    resolved.kind = ExternTypeTable =>
        LET expected == resolved.import.DescTable
            actual == ExportedTable
            err == resolved.r.err
            minBad == expected.Min > actual.Min
            noMax == expected.Max # <<>> /\ actual.Max = <<>>
            maxBad == expected.Max # <<>> /\ actual.Max # <<>> /\ actual.Max[1] > expected.Max[1]
        IN  /\ minBad => err.kind = "minimum size mismatch"
            /\ noMax => err # nil
            /\ (noMax /\ ~minBad) => err.kind = "maximum size mismatch, but actual has no max"
            /\ maxBad => err # nil
            /\ (maxBad /\ ~minBad) => err.kind = "maximum size mismatch"
            /\ (~minBad /\ ~noMax /\ ~maxBad) => err.kind \notin LimitErrors
            /\ (~minBad /\ expected.Max = <<>>) => err.kind \notin LimitErrors

\* A table import that declares the Max of the exported table, and a Min not above
\* its Min, resolved.
C9_Witness ==
    /\ resolved.kind = ExternTypeTable
    /\ resolved.import.DescTable.Max # <<>>
    /\ resolved.import.DescTable.Max = ExportedTable.Max
    /\ resolved.import.DescTable.Min <= ExportedTable.Min
    /\ resolved.r.err = nil
    /\ Len(resolved.r.importedTables) = 1

\* C10: a memory import fails when the exported Min is below its Min; fails when it
\* declares a Max and the exported Max is larger; and when it declares no Max it
\* resolves whenever the Min fits, whatever the exported Max.
C10_MemoryLimits ==
    resolved.kind = ExternTypeMemory =>
        LET expected == resolved.import.DescMem
            actual == ExportedMemory
            err == resolved.r.err
        IN  /\ expected.Min > actual.Min => err.kind = "minimum size mismatch"
            /\ (expected.IsMaxEncoded /\ actual.Max > expected.Max) => err # nil
            /\ (expected.IsMaxEncoded /\ actual.Max > expected.Max /\ expected.Min <= actual.Min)
                   => err.kind = "maximum size mismatch"
            /\ (~expected.IsMaxEncoded /\ expected.Min <= actual.Min) => err = nil

\* A memory import that declares no Max resolved against the largest exported Max.
C10_Witness ==
    /\ resolved.kind = ExternTypeMemory
    /\ ~resolved.import.DescMem.IsMaxEncoded
    /\ ExportedMemory.Max = MemoryLimitPages
    /\ resolved.import.DescMem.Min <= ExportedMemory.Min
    /\ resolved.r.err = nil
    /\ resolved.r.importedMemory # NilMemory

(***************************************************************************)
(* wazero.ModuleConfig (config.go)                                         *)
(***************************************************************************)

\* The WithXXX calls made on configurations derived from NewModuleConfig().
MaxModuleConfigCalls == 3

\* The nil map and the nil slice. A slice is the index of its backing array, its
\* length and its capacity; a backing array is a sequence of `cap` strings.
NilMap == 0
NilSlice == [arr |-> 0, len |-> 0, cap |-> 0]

\* The byte that WithImport writes between the module and the name.
NUL == "\\0"

\* The arguments the calls are made with.
EnvKeys == {"a", "b"}
EnvValues == {"1", "2"}
FSs == {"testFS", "testFS2"}
ArgsInputs == {<<"a">>}
NameInputs == {"wazero"}
StartFunctionsInputs == {<<"main">>}
StreamInputs == {"stream"}
ImportInputs ==
    {<<"wasi_unstable", "args_sizes_get", "wasi_snapshot_preview1", "args_sizes_get">>,
     <<"wasi_unstable", "args_sizes_get", "env", "args_sizes_get">>,
     <<"wasi_snapshot_preview1", "args_sizes_get", "go", "args_sizes_get">>}
ImportModuleInputs ==
    {<<"wasi_unstable", "wasi_snapshot_preview1">>, <<"wasi_unstable", "env">>,
     <<"env", "wasi_unstable">>}

\* The heap the configurations live in.
Heap == [structs |-> mcStructs, maps |-> mcMaps, arrays |-> mcArrays]

\* NewModuleConfig: the struct and its three empty maps.
NewModuleConfig ==
    [structs |-> <<[name |-> "", startFunctions |-> <<"_start">>,
                    stdin |-> "nil", stdout |-> "nil", stderr |-> "nil", args |-> <<>>,
                    environ |-> NilSlice, environKeys |-> 1,
                    preopenFD |-> 3, preopens |-> 2, preopenPaths |-> 3,
                    replacedImports |-> NilMap, replacedImportModules |-> NilMap]>>,
     maps |-> <<<<>>, <<>>, <<>>>>,
     arrays |-> <<>>]

\* return &ret: the copy escapes to the heap; the heap after the call and the pointer.
ReturnRef(h, ret) ==
    [structs |-> Append(h.structs, ret), maps |-> h.maps, arrays |-> h.arrays,
     out |-> Len(h.structs) + 1, panic |-> FALSE]

\* A run-time panic: the call returns nothing.
Panic(h) ==
    [structs |-> h.structs, maps |-> h.maps, arrays |-> h.arrays, out |-> 0, panic |-> TRUE]

\* m[k] = v on the map with index id.
MapAssign(maps, id, k, v) == [maps EXCEPT ![id] = (k :> v) @@ @]

\* The capacity the Go runtime gives a slice of strings that append has to grow.
growslice(oldCap, newLen) == IF newLen > 2 * oldCap THEN newLen ELSE 2 * oldCap

\* append(s, x, y): in place when the capacity allows, else into a new backing array.
append(arrays, slice, x, y) ==
    IF slice.len + 2 <= slice.cap
    THEN [arrays |-> [arrays EXCEPT ![slice.arr] =
                         [@ EXCEPT ![slice.len + 1] = x, ![slice.len + 2] = y]],
          slice |-> [slice EXCEPT !.len = @ + 2]]
    ELSE LET newCap == growslice(slice.cap, slice.len + 2)
             old == IF slice.arr = 0 THEN <<>> ELSE SubSeq(arrays[slice.arr], 1, slice.len)
             new == old \o <<x, y>> \o [k \in 1..(newCap - slice.len - 2) |-> ""]
         IN  [arrays |-> Append(arrays, new),
              slice |-> [arr |-> Len(arrays) + 1, len |-> slice.len + 2, cap |-> newCap]]

\* moduleConfig.WithArgs
WithArgs(h, c, args) == ReturnRef(h, [h.structs[c] EXCEPT !.args = args])

\* WithEnv without the look-up in environKeys.
WithEnvAppend(h, c, key, value) ==
    LET ret == h.structs[c]
        a == append(h.arrays, ret.environ, key, value)
    IN  ReturnRef([h EXCEPT !.maps = MapAssign(h.maps, ret.environKeys, key, ret.environ.len),
                            !.arrays = a.arrays],
                  [ret EXCEPT !.environ = a.slice])

\* moduleConfig.WithEnv
WithEnv(h, c, key, value) ==
    LET ret == h.structs[c]
        keys == h.maps[ret.environKeys]
    IN  IF key \in DOMAIN keys
        THEN LET i == keys[key] IN
             IF i + 1 >= ret.environ.len
             THEN Panic(h)
             ELSE ReturnRef([h EXCEPT !.arrays[ret.environ.arr][i + 2] = value], ret)
        ELSE LET maps == MapAssign(h.maps, ret.environKeys, key, ret.environ.len)
                 a == append(h.arrays, ret.environ, key, value)
             IN  ReturnRef([h EXCEPT !.maps = maps, !.arrays = a.arrays],
                           [ret EXCEPT !.environ = a.slice])

\* moduleConfig.setFS on the struct value c: the maps and the struct after the call.
\* preopenFD is a uint32 that starts at 3 and grows by one per call: it does not wrap
\* within MaxModuleConfigCalls.
setFS(maps, c, path, fs) ==
    LET entry == [Path |-> path, FS |-> fs] IN
    IF path \in DOMAIN maps[c.preopenPaths]
    THEN [maps |-> MapAssign(maps, c.preopens, maps[c.preopenPaths][path], entry), c |-> c]
    ELSE [maps |-> MapAssign(MapAssign(maps, c.preopens, c.preopenFD, entry),
                             c.preopenPaths, path, c.preopenFD),
          c |-> [c EXCEPT !.preopenFD = @ + 1]]

\* moduleConfig.WithFS
WithFS(h, c, fs) ==
    LET r == setFS(h.maps, h.structs[c], "/", fs) IN ReturnRef([h EXCEPT !.maps = r.maps], r.c)

\* moduleConfig.WithWorkDirFS
WithWorkDirFS(h, c, fs) ==
    LET r == setFS(h.maps, h.structs[c], ".", fs) IN ReturnRef([h EXCEPT !.maps = r.maps], r.c)

\* moduleConfig.WithImport
WithImport(h, c, oldModule, oldName, newModule, newName) ==
    LET ret == h.structs[c]
        fresh == ret.replacedImports = NilMap
        id == IF fresh THEN Len(h.maps) + 1 ELSE ret.replacedImports
        maps == IF fresh THEN Append(h.maps, <<>>) ELSE h.maps
        key == oldModule \o NUL \o oldName
    IN  ReturnRef([h EXCEPT !.maps = MapAssign(maps, id, key, <<newModule, newName>>)],
                  [ret EXCEPT !.replacedImports = id])

\* moduleConfig.WithImportModule
WithImportModule(h, c, oldModule, newModule) ==
    LET ret == h.structs[c]
        fresh == ret.replacedImportModules = NilMap
        id == IF fresh THEN Len(h.maps) + 1 ELSE ret.replacedImportModules
        maps == IF fresh THEN Append(h.maps, <<>>) ELSE h.maps
    IN  ReturnRef([h EXCEPT !.maps = MapAssign(maps, id, oldModule, newModule)],
                  [ret EXCEPT !.replacedImportModules = id])

\* moduleConfig.WithName
WithName(h, c, name) == ReturnRef(h, [h.structs[c] EXCEPT !.name = name])

\* moduleConfig.WithStartFunctions
WithStartFunctions(h, c, startFunctions) ==
    ReturnRef(h, [h.structs[c] EXCEPT !.startFunctions = startFunctions])

\* moduleConfig.WithStderr
WithStderr(h, c, stderr) == ReturnRef(h, [h.structs[c] EXCEPT !.stderr = stderr])

\* moduleConfig.WithStdin
WithStdin(h, c, stdin) == ReturnRef(h, [h.structs[c] EXCEPT !.stdin = stdin])

\* moduleConfig.WithStdout
WithStdout(h, c, stdout) == ReturnRef(h, [h.structs[c] EXCEPT !.stdout = stdout])

\* One call c.WithXXX(...): the heap after it and the record of the call.
ModuleConfigCall(method, c, r) ==
    /\ mcStructs' = r.structs
    /\ mcMaps' = r.maps
    /\ mcArrays' = r.arrays
    /\ mcLast' = [method |-> method, c |-> c, out |-> r.out, panic |-> r.panic]
    /\ UNCHANGED storeVars
    /\ UNCHANGED binaryVars
    /\ UNCHANGED rcVars

\* The program goes on calling while it has not panicked.
MayCall == ~mcLast.panic /\ Len(mcStructs) <= MaxModuleConfigCalls

McWithArgs ==
    /\ MayCall
    /\ \E c \in 1..Len(mcStructs), args \in ArgsInputs :
          ModuleConfigCall("WithArgs", c, WithArgs(Heap, c, args))

McWithEnv ==
    /\ MayCall
    /\ \E c \in 1..Len(mcStructs), key \in EnvKeys, value \in EnvValues :
          ModuleConfigCall("WithEnv", c, WithEnv(Heap, c, key, value))

McWithFS ==
    /\ MayCall
    /\ \E c \in 1..Len(mcStructs), fs \in FSs :
          ModuleConfigCall("WithFS", c, WithFS(Heap, c, fs))

McWithImport ==
    /\ MayCall
    /\ \E c \in 1..Len(mcStructs), i \in ImportInputs :
          ModuleConfigCall("WithImport", c, WithImport(Heap, c, i[1], i[2], i[3], i[4]))

McWithImportModule ==
    /\ MayCall
    /\ \E c \in 1..Len(mcStructs), i \in ImportModuleInputs :
          ModuleConfigCall("WithImportModule", c, WithImportModule(Heap, c, i[1], i[2]))

McWithName ==
    /\ MayCall
    /\ \E c \in 1..Len(mcStructs), name \in NameInputs :
          ModuleConfigCall("WithName", c, WithName(Heap, c, name))

McWithStartFunctions ==
    /\ MayCall
    /\ \E c \in 1..Len(mcStructs), fns \in StartFunctionsInputs :
          ModuleConfigCall("WithStartFunctions", c, WithStartFunctions(Heap, c, fns))

McWithStderr ==
    /\ MayCall
    /\ \E c \in 1..Len(mcStructs), w \in StreamInputs :
          ModuleConfigCall("WithStderr", c, WithStderr(Heap, c, w))

McWithStdin ==
    /\ MayCall
    /\ \E c \in 1..Len(mcStructs), r \in StreamInputs :
          ModuleConfigCall("WithStdin", c, WithStdin(Heap, c, r))

McWithStdout ==
    /\ MayCall
    /\ \E c \in 1..Len(mcStructs), w \in StreamInputs :
          ModuleConfigCall("WithStdout", c, WithStdout(Heap, c, w))

McWithWorkDirFS ==
    /\ MayCall
    /\ \E c \in 1..Len(mcStructs), fs \in FSs :
          ModuleConfigCall("WithWorkDirFS", c, WithWorkDirFS(Heap, c, fs))

ModuleConfigInit ==
    /\ mcStructs = NewModuleConfig.structs
    /\ mcMaps = NewModuleConfig.maps
    /\ mcArrays = NewModuleConfig.arrays
    /\ mcLast = [method |-> "NewModuleConfig", c |-> 0, out |-> 1, panic |-> FALSE]
    /\ StoreUnused
    /\ RuntimeConfigUnused
    /\ BinaryUnused

ModuleConfigNext ==
    \/ McWithArgs
    \/ McWithEnv
    \/ McWithFS
    \/ McWithImport
    \/ McWithImportModule
    \/ McWithName
    \/ McWithStartFunctions
    \/ McWithStderr
    \/ McWithStdin
    \/ McWithStdout
    \/ McWithWorkDirFS

SpecModuleConfig == ModuleConfigInit /\ [][ModuleConfigNext]_vars

(***************************************************************************)
(* Properties of ModuleConfig                                              *)
(***************************************************************************)

\* What the configuration behind the pointer c holds, maps and slices followed.
Configuration(structs, maps, arrays, c) ==
    LET s == structs[c]
        MapOf(id) == IF id = NilMap THEN "nil" ELSE maps[id]
    IN  [name |-> s.name, startFunctions |-> s.startFunctions,
         stdin |-> s.stdin, stdout |-> s.stdout, stderr |-> s.stderr, args |-> s.args,
         environ |-> IF s.environ.arr = 0 THEN <<>>
                     ELSE SubSeq(arrays[s.environ.arr], 1, s.environ.len),
         environKeys |-> MapOf(s.environKeys),
         preopenFD |-> s.preopenFD,
         preopens |-> MapOf(s.preopens),
         preopenPaths |-> MapOf(s.preopenPaths),
         replacedImports |-> MapOf(s.replacedImports),
         replacedImportModules |-> MapOf(s.replacedImportModules)]

\* C4: every WithXXX call on a configuration derived from NewModuleConfig() returns
\* a new configuration and leaves the receiver's configuration as it was before the
\* call: its environ and key index, its preopens and preopen paths, and its
\* replaced-import and replaced-import-module tables.
C4_ReceiverUnchanged ==
    [][/\ ~mcLast'.panic
       /\ mcLast'.out \notin 1..Len(mcStructs)
       /\ Configuration(mcStructs', mcMaps', mcArrays', mcLast'.c)
              = Configuration(mcStructs, mcMaps, mcArrays, mcLast'.c)]_vars

(***************************************************************************)
(* moduleConfig.replaceImports (config.go)                                 *)
(***************************************************************************)

\* The modules replaceImports is called with: a heap of wasm.Import structs and a
\* heap of wasm.Module structs whose ImportSection holds pointers into the former.
\* A pointer is an index; a nil ImportSection and an empty one are both <<>>, the
\* code returning the input module for either.
ReplaceImportsHeap ==
    [imports |-> <<ImportFunc("wasi_unstable", "args_sizes_get", 0),
                   ImportFunc("env", "abort", 0),
                   ImportFunc("go", "increment", 0),
                   ImportFunc("wasi_snapshot_preview1", "args_sizes_get", 0)>>,
     modules |-> <<EmptyModule,
                   [EmptyModule EXCEPT !.TypeSection = <<v_v>>, !.ImportSection = <<1, 2>>],
                   [EmptyModule EXCEPT !.TypeSection = <<v_v>>, !.ImportSection = <<3>>],
                   [EmptyModule EXCEPT !.TypeSection = <<v_v>>, !.ImportSection = <<4>>]>>]

\* The orders in which a range statement may visit the keys of a map.
Orders(keys) ==
    {o \in [1..Cardinality(keys) -> keys] : \A i, j \in DOMAIN o : i # j => o[i] # o[j]}

\* The module and the name a key of replacedImports is split into at its first NUL;
\* the module and import names of the inputs hold no NUL.
ImportNames ==
    UNION {{i[1], i[2], i[3], i[4]} : i \in ImportInputs}
SplitImportKey(oldImport) ==
    CHOOSE n \in ImportNames \X ImportNames : n[1] \o NUL \o n[2] = oldImport

\* for i, imp := range replacedImports, from index i on, of one entry of
\* replacedImportModules. st is the heap of Import structs, the slice replacedImports
\* and the flag changed.
RECURSIVE replaceImportModule(_, _, _, _)
replaceImportModule(st, oldModule, newModule, i) ==
    IF i > Len(st.replacedImports) THEN st
    ELSE LET imp == st.imports[st.replacedImports[i]] IN
         IF imp.Module = oldModule
         THEN LET cp == [imp EXCEPT !.Module = newModule] IN
              replaceImportModule(
                  [imports |-> Append(st.imports, cp),
                   replacedImports |-> [st.replacedImports EXCEPT ![i] = Len(st.imports) + 1],
                   changed |-> TRUE],
                  oldModule, newModule, i + 1)
         ELSE replaceImportModule(st, oldModule, newModule, i + 1)

\* for oldModule, newModule := range c.replacedImportModules, in the order given.
RECURSIVE replaceImportModules(_, _, _, _)
replaceImportModules(st, replacedImportModules, order, k) ==
    IF k > Len(order) THEN st
    ELSE replaceImportModules(
             replaceImportModule(st, order[k], replacedImportModules[order[k]], 1),
             replacedImportModules, order, k + 1)

\* for i, imp := range replacedImports, from index i on, of one entry of
\* replacedImports.
RECURSIVE replaceImport(_, _, _, _)
replaceImport(st, oldImport, newImport, i) ==
    IF i > Len(st.replacedImports) THEN st
    ELSE LET imp == st.imports[st.replacedImports[i]]
             old == SplitImportKey(oldImport)
         IN  IF imp.Module = old[1] /\ imp.Name = old[2]
             THEN LET cp == [imp EXCEPT !.Module = newImport[1], !.Name = newImport[2]] IN
                  replaceImport(
                      [imports |-> Append(st.imports, cp),
                       replacedImports |->
                           [st.replacedImports EXCEPT ![i] = Len(st.imports) + 1],
                       changed |-> TRUE],
                      oldImport, newImport, i + 1)
             ELSE replaceImport(st, oldImport, newImport, i + 1)

\* for oldImport, newImport := range c.replacedImports, in the order given.
RECURSIVE replaceEachImport(_, _, _, _)
replaceEachImport(st, replacedImports, order, k) ==
    IF k > Len(order) THEN st
    ELSE replaceEachImport(
             replaceImport(st, order[k], replacedImports[order[k]], 1),
             replacedImports, order, k + 1)

\* The two range statements of replaceImports with the one over replacedImports
\* first.
replaceImportsLoopsImportsFirst(c, maps, st, orderModules, orderImports) ==
    LET st1 == IF c.replacedImports = NilMap THEN st
               ELSE replaceEachImport(st, maps[c.replacedImports], orderImports, 1)
    IN  IF c.replacedImportModules = NilMap THEN st1
        ELSE replaceImportModules(st1, maps[c.replacedImportModules], orderModules, 1)

\* The copy of the ImportSection after both range statements of replaceImports, the
\* one over replacedImportModules first.
replaceImportsLoops(c, maps, st, orderModules, orderImports) ==
    LET st1 == IF c.replacedImportModules = NilMap THEN st
               ELSE replaceImportModules(st, maps[c.replacedImportModules], orderModules, 1)
    IN  IF c.replacedImports = NilMap THEN st1
        ELSE replaceEachImport(st1, maps[c.replacedImports], orderImports, 1)

\* The end of replaceImports without the test of changed.
replaceImportsReturnCopy(h, module, st) ==
    [imports |-> st.imports,
     modules |-> Append(h.modules,
                        [h.modules[module] EXCEPT !.ImportSection = st.replacedImports]),
     out |-> Len(h.modules) + 1]

\* What replaceImports does once the loops are over: the heap after the call and the
\* pointer returned.
replaceImportsReturn(h, module, st) ==
    IF ~st.changed
    THEN [imports |-> st.imports, modules |-> h.modules, out |-> module]
    ELSE [imports |-> st.imports,
          modules |-> Append(h.modules,
                             [h.modules[module] EXCEPT !.ImportSection = st.replacedImports]),
          out |-> Len(h.modules) + 1]

\* moduleConfig.replaceImports on the struct value c and the module behind the pointer
\* module, the two maps visited in the orders given.
replaceImports(c, maps, h, module, orderModules, orderImports) ==
    IF \/ c.replacedImportModules = NilMap /\ c.replacedImports = NilMap
       \/ h.modules[module].ImportSection = <<>>
    THEN [imports |-> h.imports, modules |-> h.modules, out |-> module]
    ELSE replaceImportsReturn(h, module,
             replaceImportsLoops(c, maps,
                 [imports |-> h.imports,
                  replacedImports |-> h.modules[module].ImportSection,
                  changed |-> FALSE],
                 orderModules, orderImports))

\* The keys of the map with index id, none for the nil map.
MapKeys(id) == IF id = NilMap THEN {} ELSE DOMAIN mcMaps[id]

\* One call c.replaceImports(module) on a configuration built so far.
McReplaceImports ==
    /\ ~mcLast.panic
    /\ \E c \in 1..Len(mcStructs), module \in 1..Len(ReplaceImportsHeap.modules) :
       \E orderModules \in Orders(MapKeys(mcStructs[c].replacedImportModules)),
          orderImports \in Orders(MapKeys(mcStructs[c].replacedImports)) :
          LET r == replaceImports(mcStructs[c], mcMaps, ReplaceImportsHeap, module,
                                  orderModules, orderImports)
          IN  mcLast' = [method |-> "replaceImports", c |-> c, out |-> r.out,
                         panic |-> FALSE, module |-> module,
                         imports |-> r.imports, modules |-> r.modules]
    /\ UNCHANGED <<mcStructs, mcMaps, mcArrays>>
    /\ UNCHANGED storeVars
    /\ UNCHANGED binaryVars
    /\ UNCHANGED rcVars

\* The WithImport and WithImportModule calls that build the configurations
\* replaceImports is called on.
MaxReplaceImportsCalls == 2

RiWithImport == Len(mcStructs) <= MaxReplaceImportsCalls /\ McWithImport

RiWithImportModule == Len(mcStructs) <= MaxReplaceImportsCalls /\ McWithImportModule

ReplaceImportsNext ==
    \/ RiWithImport
    \/ RiWithImportModule
    \/ McReplaceImports

SpecReplaceImports == ModuleConfigInit /\ [][ReplaceImportsNext]_vars

\* The call just made, when it is one of replaceImports: the configuration's two maps
\* (empty when nil), the imports of the input module and those of the module returned.
ReplacedImportModules ==
    IF mcStructs[mcLast.c].replacedImportModules = NilMap THEN <<>>
    ELSE mcMaps[mcStructs[mcLast.c].replacedImportModules]
ReplacedImports ==
    IF mcStructs[mcLast.c].replacedImports = NilMap THEN <<>>
    ELSE mcMaps[mcStructs[mcLast.c].replacedImports]
InputImports ==
    [i \in DOMAIN ReplaceImportsHeap.modules[mcLast.module].ImportSection |->
        ReplaceImportsHeap.imports[ReplaceImportsHeap.modules[mcLast.module].ImportSection[i]]]
OutputImports ==
    [i \in DOMAIN mcLast.modules[mcLast.out].ImportSection |->
        mcLast.imports[mcLast.modules[mcLast.out].ImportSection[i]]]

\* C12: when replaceImports rewrites a module's import list, the replacements of
\* WithImportModule are applied before those of WithImport: an import of oldModule
\* that WithImportModule renames to newModule, itself not renamed further, is then
\* rewritten by the WithImport replacement keyed on (newModule, name), whose target
\* is what the returned module imports when no other WithImport replacement is
\* keyed on that target.
C12_ImportModuleBeforeImport ==
    mcLast.method = "replaceImports" =>
        \A i \in DOMAIN InputImports :
            LET imp == InputImports[i] IN
            imp.Module \in DOMAIN ReplacedImportModules =>
                LET newModule == ReplacedImportModules[imp.Module]
                    key == newModule \o NUL \o imp.Name
                IN  (/\ newModule \notin DOMAIN ReplacedImportModules
                     /\ key \in DOMAIN ReplacedImports
                     /\ ReplacedImports[key][1] \o NUL \o ReplacedImports[key][2]
                            \notin DOMAIN ReplacedImports)
                    => /\ OutputImports[i].Module = ReplacedImports[key][1]
                       /\ OutputImports[i].Name = ReplacedImports[key][2]

\* An import of "wasi_unstable" came out as an import of "go": renamed to
\* "wasi_snapshot_preview1" by WithImportModule, then replaced by WithImport.
C12_Witness ==
    /\ mcLast.method = "replaceImports"
    /\ mcLast.module = 2
    /\ "wasi_unstable" \in DOMAIN ReplacedImportModules
    /\ ReplacedImportModules["wasi_unstable"] = "wasi_snapshot_preview1"
    /\ "wasi_unstable" \o NUL \o "args_sizes_get" \notin DOMAIN ReplacedImports
    /\ OutputImports[1].Module = "go"
    /\ OutputImports[1].Name = "args_sizes_get"


\* C13 as stated: when replaceImports rewrites the import list, the replacements of
\* WithImport are applied first and those of WithImportModule after them: an import
\* that a WithImport replacement is keyed on comes out with that replacement's name
\* and with that replacement's module, renamed by WithImportModule when it is a key
\* of replacedImportModules.
C13_ImportBeforeImportModule ==
    mcLast.method = "replaceImports" =>
        \A i \in DOMAIN InputImports :
            LET imp == InputImports[i]
                key == imp.Module \o NUL \o imp.Name
            IN  key \in DOMAIN ReplacedImports =>
                    LET new == ReplacedImports[key]
                        renamed == IF new[1] \in DOMAIN ReplacedImportModules
                                   THEN ReplacedImportModules[new[1]] ELSE new[1]
                    IN  (/\ new[1] \o NUL \o new[2] \notin DOMAIN ReplacedImports
                         /\ renamed \notin DOMAIN ReplacedImportModules)
                        => /\ OutputImports[i].Module = renamed
                           /\ OutputImports[i].Name = new[2]

\* C13: when replaceImports rewrites the import list, the replacements of
\* WithImportModule are applied first and those of WithImport after them: an import
\* whose module WithImportModule renames, the new module not renamed further, comes
\* out with the new module and its own name unless a WithImport replacement is keyed
\* on the new module and that name, whether or not one is keyed on the old module.
C13_ImportAfterImportModule ==
    mcLast.method = "replaceImports" =>
        \A i \in DOMAIN InputImports :
            LET imp == InputImports[i] IN
            imp.Module \in DOMAIN ReplacedImportModules =>
                LET newModule == ReplacedImportModules[imp.Module] IN
                (/\ newModule # imp.Module
                 /\ newModule \notin DOMAIN ReplacedImportModules
                 /\ newModule \o NUL \o imp.Name \notin DOMAIN ReplacedImports)
                => /\ OutputImports[i].Module = newModule
                   /\ OutputImports[i].Name = imp.Name

\* An import of ("wasi_unstable", "args_sizes_get") that WithImport replaces by one of
\* "env" came out as an import of "wasi_snapshot_preview1", the module WithImportModule
\* renames "wasi_unstable" to.
C13_Witness ==
    /\ mcLast.method = "replaceImports"
    /\ mcLast.module = 2
    /\ "wasi_unstable" \o NUL \o "args_sizes_get" \in DOMAIN ReplacedImports
    /\ ReplacedImports["wasi_unstable" \o NUL \o "args_sizes_get"][1] = "env"
    /\ "wasi_unstable" \in DOMAIN ReplacedImportModules
    /\ OutputImports[1].Module = "wasi_snapshot_preview1"
    /\ OutputImports[1].Name = "args_sizes_get"

\* An import of the input module matches a replacement of the configuration.
ImportMatches ==
    \E i \in DOMAIN InputImports :
        \/ InputImports[i].Module \in DOMAIN ReplacedImportModules
        \/ InputImports[i].Module \o NUL \o InputImports[i].Name \in DOMAIN ReplacedImports

\* C14: replaceImports returns the pointer it was given when the configuration holds
\* no replacement, when the module has no imports and when no import matches a
\* replacement; it returns another module when an import matches; and in every case
\* the input module, its ImportSection and the Import structs it points to are as
\* they were before the call.
C14_SameModuleOrCopy ==
    mcLast.method = "replaceImports" =>
        /\ (\/ /\ mcStructs[mcLast.c].replacedImportModules = NilMap
               /\ mcStructs[mcLast.c].replacedImports = NilMap
            \/ InputImports = <<>>
            \/ ~ImportMatches) => mcLast.out = mcLast.module
        /\ ImportMatches => mcLast.out # mcLast.module
        /\ \A module \in DOMAIN ReplaceImportsHeap.modules :
               mcLast.modules[module] = ReplaceImportsHeap.modules[module]
        /\ \A imp \in DOMAIN ReplaceImportsHeap.imports :
               mcLast.imports[imp] = ReplaceImportsHeap.imports[imp]

\* A module with two imports, one of which matched: another module was returned, its
\* second import the very Import struct of the input.
C14_Witness ==
    /\ mcLast.method = "replaceImports"
    /\ mcLast.module = 2
    /\ ImportMatches
    /\ mcLast.out # mcLast.module
    /\ OutputImports[1] # InputImports[1]
    /\ mcLast.modules[mcLast.out].ImportSection[2]
           = ReplaceImportsHeap.modules[2].ImportSection[2]

(***************************************************************************)
(* moduleConfig.toSysContext (config.go)                                   *)
(***************************************************************************)

\* The WithXXX calls of the chain toSysContext is called along: every call is made
\* on the configuration the call before it returned.
MaxSysContextCalls == 3

\* The strings toSysContext looks into are sequences of bytes.
SysEnvKeys == {<<"a">>, <<"c">>, <<>>, <<"a", "=">>}
SysEnvValues == {<<"b">>, <<"d", "e">>}

\* A nil fs.FS.
NilFS == "nil"

\* The check of one key without the loop over its bytes.
validateEnvironKeyNotEmpty(key) ==
    IF Len(key) = 0 THEN Errorf("environ invalid: empty key", "environ invalid: empty key")
    ELSE nil

\* The check of one key in toSysContext.
validateEnvironKey(key) ==
    IF Len(key) = 0 THEN Errorf("environ invalid: empty key", "environ invalid: empty key")
    ELSE IF \E j \in 1..Len(key) : key[j] = "="
         THEN Errorf("environ invalid: key contains '=' character",
                     "environ invalid: key contains '=' character")
         ELSE nil

\* for i := 0; i < len(c.environ); i += 2, from the pair at index i on (1-based):
\* the slice environ built so far and the error.
RECURSIVE toSysContextEnviron(_, _, _)
toSysContextEnviron(cEnviron, i, environ) ==
    IF i > Len(cEnviron) THEN [environ |-> environ, err |-> nil]
    ELSE LET key == cEnviron[i]
             value == cEnviron[i + 1]
             err == validateEnvironKey(key)
         IN  IF err # nil THEN [environ |-> environ, err |-> err]
             ELSE toSysContextEnviron(cEnviron, i + 2, Append(environ, key \o <<"=">> \o value))

\* for fd, entry := range preopens, the descriptors visited in the order given.
RECURSIVE toSysContextPreopens(_, _, _, _)
toSysContextPreopens(preopens, order, k, st) ==
    IF k > Len(order) THEN st
    ELSE LET fd == order[k]
             entry == preopens[fd]
         IN  IF entry.FS = NilFS
             THEN [st EXCEPT !.err = Errorf("FS for %s is nil", "FS for " \o entry.Path \o " is nil")]
             ELSE IF entry.Path = "/"
                  THEN toSysContextPreopens(preopens, order, k + 1, [st EXCEPT !.rootFD = fd])
                  ELSE IF entry.Path = "."
                       THEN toSysContextPreopens(preopens, order, k + 1,
                                                 [st EXCEPT !.setWorkDirFS = TRUE])
                       ELSE toSysContextPreopens(preopens, order, k + 1, st)

\* wasm.NewSysContext: a pointer (a sequence of at most one struct) to the system
\* context of the arguments, the environment and the opened files it is given, none
\* of the strings holding a NUL.
NewSysContext(max, args, environ, stdin, stdout, stderr, openedFiles) ==
    IF \E i \in DOMAIN environ : \E j \in DOMAIN environ[i] : environ[i][j] = NUL
    THEN [sys |-> NilPtr,
          err |-> Errorf("environ invalid: contains NUL character",
                         "environ invalid: contains NUL character")]
    ELSE [sys |-> <<[args |-> args, environ |-> environ, stdin |-> stdin, stdout |-> stdout,
                     stderr |-> stderr, openedFiles |-> openedFiles]>>,
          err |-> nil]

\* moduleConfig.toSysContext on the struct value c, the preopens visited in the
\* order given: the maps after the call, the system context and the error.
toSysContext(h, c, order) ==
    LET cEnviron == IF c.environ.arr = 0 THEN <<>>
                    ELSE SubSeq(h.arrays[c.environ.arr], 1, c.environ.len)
        e == toSysContextEnviron(cEnviron, 1, <<>>)
        p == toSysContextPreopens(h.maps[c.preopens], order, 1,
                                  [rootFD |-> 0, setWorkDirFS |-> FALSE, err |-> nil])
    IN  IF e.err # nil THEN [maps |-> h.maps, sys |-> NilPtr, err |-> e.err]
        ELSE IF p.err # nil THEN [maps |-> h.maps, sys |-> NilPtr, err |-> p.err]
        ELSE LET maps == IF p.rootFD # 0 /\ ~p.setWorkDirFS
                         THEN MapAssign(h.maps, c.preopens, c.preopenFD,
                                        [Path |-> ".", FS |-> h.maps[c.preopens][p.rootFD].FS])
                         ELSE h.maps
                 r == NewSysContext("MaxUint32", c.args, e.environ, c.stdin, c.stdout,
                                    c.stderr, maps[c.preopens])
             IN  [maps |-> maps, sys |-> r.sys, err |-> r.err]

\* One call of the chain: the heap after it, the record of the call, and the calls
\* made so far, each with its arguments.
ChainCall(call, r) ==
    /\ mcStructs' = r.structs
    /\ mcMaps' = r.maps
    /\ mcArrays' = r.arrays
    /\ mcLast' = [method |-> call[1], c |-> Len(mcStructs), out |-> r.out, panic |-> r.panic,
                  chain |-> Append(mcLast.chain, call)]
    /\ UNCHANGED storeVars
    /\ UNCHANGED binaryVars
    /\ UNCHANGED rcVars

\* The chain goes on from the configuration returned last.
MayChain == ~mcLast.panic /\ Len(mcStructs) <= MaxSysContextCalls

ScWithEnv ==
    /\ MayChain
    /\ \E key \in SysEnvKeys, value \in SysEnvValues :
          ChainCall(<<"WithEnv", key, value>>, WithEnv(Heap, Len(mcStructs), key, value))

ScWithFS ==
    /\ MayChain
    /\ \E fs \in FSs \cup {NilFS} :
          ChainCall(<<"WithFS", fs>>, WithFS(Heap, Len(mcStructs), fs))

ScWithWorkDirFS ==
    /\ MayChain
    /\ \E fs \in FSs \cup {NilFS} :
          ChainCall(<<"WithWorkDirFS", fs>>, WithWorkDirFS(Heap, Len(mcStructs), fs))

\* toSysContext on the configuration returned last, as Instantiate calls it.
ScToSysContext ==
    /\ ~mcLast.panic
    /\ \E order \in Orders(DOMAIN mcMaps[mcStructs[Len(mcStructs)].preopens]) :
          LET r == toSysContext(Heap, mcStructs[Len(mcStructs)], order) IN
          /\ mcMaps' = r.maps
          /\ mcLast' = [method |-> "toSysContext", c |-> Len(mcStructs), out |-> 0,
                        panic |-> FALSE, chain |-> mcLast.chain,
                        sys |-> r.sys, err |-> r.err]
    /\ UNCHANGED <<mcStructs, mcArrays>>
    /\ UNCHANGED storeVars
    /\ UNCHANGED binaryVars
    /\ UNCHANGED rcVars

SysContextInit ==
    /\ mcStructs = NewModuleConfig.structs
    /\ mcMaps = NewModuleConfig.maps
    /\ mcArrays = NewModuleConfig.arrays
    /\ mcLast = [method |-> "NewModuleConfig", c |-> 0, out |-> 1, panic |-> FALSE,
                 chain |-> <<>>]
    /\ StoreUnused
    /\ RuntimeConfigUnused
    /\ BinaryUnused

SysContextNext ==
    \/ ScWithEnv
    \/ ScWithFS
    \/ ScWithWorkDirFS
    \/ ScToSysContext

SpecSysContext == SysContextInit /\ [][SysContextNext]_vars

\* The WithEnv calls of the chain, in the order they were made.
EnvCalls == SelectSeq(mcLast.chain, LAMBDA call : call[1] = "WithEnv")

\* The keys the chain set that toSysContext refuses.
BadKey(key) == key = <<>> \/ \E j \in DOMAIN key : key[j] = "="

\* C15: toSysContext returns an error and no SysContext whenever a key of the
\* environment set through WithEnv is empty or contains '=', whatever else the
\* configuration holds: "environ invalid: empty key" when the first such key set is
\* empty, "environ invalid: key contains '=' character" when it contains '='.
C15_InvalidEnvironKeyFails ==
    (/\ mcLast.method = "toSysContext"
     /\ \E i \in DOMAIN EnvCalls : BadKey(EnvCalls[i][2]))
    => LET first == CHOOSE i \in DOMAIN EnvCalls :
                        /\ BadKey(EnvCalls[i][2])
                        /\ \A j \in 1..(i - 1) : ~BadKey(EnvCalls[j][2])
       IN  /\ mcLast.sys = NilPtr
           /\ mcLast.err.msg = IF EnvCalls[first][2] = <<>>
                               THEN "environ invalid: empty key"
                               ELSE "environ invalid: key contains '=' character"

\* toSysContext refused a configuration for its key "a=", set after a valid key and
\* together with a file system.
C15_Witness ==
    /\ mcLast.method = "toSysContext"
    /\ mcLast.err.msg = "environ invalid: key contains '=' character"
    /\ mcLast.sys = NilPtr
    /\ \E i \in DOMAIN mcLast.chain : mcLast.chain[i] = <<"WithFS", "testFS">>
    /\ Len(EnvCalls) = 2
    /\ EnvCalls[1][2] = <<"a">>

\* The distinct keys of the WithEnv calls from call i on, in the order they were
\* first set, after those of seen.
RECURSIVE KeysInOrder(_, _)
KeysInOrder(i, seen) ==
    IF i > Len(EnvCalls) THEN seen
    ELSE IF \E k \in DOMAIN seen : seen[k] = EnvCalls[i][2]
         THEN KeysInOrder(i + 1, seen)
         ELSE KeysInOrder(i + 1, Append(seen, EnvCalls[i][2]))

\* The value of the most recent WithEnv call for key.
LastValue(key) ==
    LET last == CHOOSE i \in DOMAIN EnvCalls :
                    /\ EnvCalls[i][2] = key
                    /\ \A j \in (i + 1)..Len(EnvCalls) : EnvCalls[j][2] # key
    IN  EnvCalls[last][3]

FSCalls == SelectSeq(mcLast.chain, LAMBDA call : call[1] \in {"WithFS", "WithWorkDirFS"})
PathOf(call) == IF call[1] = "WithFS" THEN "/" ELSE "."

\* The distinct paths of the calls from call i on, in the order they were first set,
\* after those of seen.
RECURSIVE PathsInOrder(_, _)
PathsInOrder(i, seen) ==
    IF i > Len(FSCalls) THEN seen
    ELSE IF \E k \in DOMAIN seen : seen[k] = PathOf(FSCalls[i])
         THEN PathsInOrder(i + 1, seen)
         ELSE PathsInOrder(i + 1, Append(seen, PathOf(FSCalls[i])))

\* The file system of the most recent call that set path.
LastFS(path) ==
    LET last == CHOOSE i \in DOMAIN FSCalls :
                    /\ PathOf(FSCalls[i]) = path
                    /\ \A j \in (i + 1)..Len(FSCalls) : PathOf(FSCalls[j]) # path
    IN  FSCalls[last][2]

\* C17: after a chain of WithFS / WithWorkDirFS calls from NewModuleConfig(), the
\* preopens of the SysContext that toSysContext returns give descriptor 3 to the path
\* set first and 4 to the other, each with the file system it was set to last; and
\* when only "/" was set, "." is preopened at descriptor 4 with the file system of
\* "/".
C17_Preopens ==
    (mcLast.method = "toSysContext" /\ mcLast.sys # NilPtr)
    => LET paths == PathsInOrder(1, <<>>)
           set == [fd \in {2 + k : k \in DOMAIN paths} |->
                      [Path |-> paths[fd - 2], FS |-> LastFS(paths[fd - 2])]]
       IN  mcLast.sys[1].openedFiles =
               IF paths = <<"/">> THEN (4 :> [Path |-> ".", FS |-> LastFS("/")]) @@ set
               ELSE set

(***************************************************************************)
(* Properties of compiledCode.Close                                        *)
(***************************************************************************)

\* C18: Close removes the module of its CompiledCode from the engine's cache of
\* compiled modules and returns, whatever context it is given (it reads none); it
\* removes no other module's entry; and once Close has been called on every
\* CompiledCode compiled on the engine, the cache is empty.
C18_CloseRemovesOwnEntry ==
    /\ [][\A p \in Procs :
             (calls[p].pc = "done" /\ calls'[p].pc = "closed")
             => /\ calls[p].module \notin cachedModules'
                /\ cachedModules \ {calls[p].module} \subseteq cachedModules']_vars
    /\ []((\A p \in Procs : calls[p].pc = "closed") => cachedModules = {})

\* The first CompiledCode is closed and its module has left the cache, where the
\* module of the second, another one, still is.
C18_Witness ==
    /\ calls[1].pc = "closed"
    /\ calls[1].module \notin cachedModules
    /\ calls[2].pc = "done"
    /\ calls[2].module # calls[1].module
    /\ calls[2].module \in cachedModules

(***************************************************************************)
(* Properties of the function type limit                                   *)
(***************************************************************************)

\* The keys of the types of goroutine p's module that the Store has not interned.
NewTypes(p) ==
    {String(Modules[calls[p].module].TypeSection[i]) :
        i \in DOMAIN Modules[calls[p].module].TypeSection} \ DOMAIN typeIDs

TooManyTypes == "too many function types in a store"

\* C19: a Store never holds more distinct function types than its limit. Interning
\* the types of a module fails with "too many function types in a store" exactly
\* when its not-yet-known types do not all fit, and the type that did not fit is not
\* added; that Instantiate call then returns the error and no module, its name
\* released; and every type interned before keeps its ID.
C19_TypeLimit ==
    /\ [](Cardinality(DOMAIN typeIDs) <= functionMaxTypes)
    /\ [][/\ \A key \in DOMAIN typeIDs : key \in DOMAIN typeIDs' /\ typeIDs'[key] = typeIDs[key]
          /\ \A p \in Procs :
                (calls[p].pc = "getFunctionTypeIDs" /\ calls'[p].pc # "getFunctionTypeIDs")
                => IF Cardinality(DOMAIN typeIDs) + Cardinality(NewTypes(p)) > functionMaxTypes
                   THEN /\ calls'[p].err.kind = TooManyTypes
                        /\ calls'[p].pc = "deleteModule"
                        /\ NewTypes(p) \ DOMAIN typeIDs' # {}
                   ELSE /\ calls'[p].err = nil
                        /\ NewTypes(p) \subseteq DOMAIN typeIDs'
          /\ \A p \in Procs :
                (calls[p].err.kind = TooManyTypes /\ calls[p].pc # "done"
                    /\ calls'[p].pc = "done")
                => /\ calls'[p].err.kind = TooManyTypes
                   /\ ~calls'[p].ret
                   /\ calls[p].name \notin moduleNames'
                   /\ calls[p].name \notin DOMAIN modules']_vars

\* With the Store at its limit, an Instantiate call has failed for a type that did
\* not fit and has released its name, the types of the other call still interned
\* under the IDs given in order.
C19_Witness ==
    /\ Cardinality(DOMAIN typeIDs) = functionMaxTypes
    /\ {typeIDs[key] : key \in DOMAIN typeIDs} = 0..(functionMaxTypes - 1)
    /\ \E p \in Procs :
          /\ calls[p].pc = "done"
          /\ calls[p].err.kind = TooManyTypes
          /\ ~calls[p].ret
          /\ calls[p].name \notin moduleNames
          /\ \E t \in DOMAIN Modules[calls[p].module].TypeSection :
                String(Modules[calls[p].module].TypeSection[t]) \notin DOMAIN typeIDs

(***************************************************************************)
(* Properties of WithWasmCore1 and WithWasmCore2                           *)
(***************************************************************************)

\* The features each toggle switches, the coupled pair together.
ToggledFeatures ==
    [WithFeatureBulkMemoryOperations |-> {FeatureBulkMemoryOperations, FeatureReferenceTypes},
     WithFeatureMultiValue |-> {FeatureMultiValue},
     WithFeatureMutableGlobal |-> {FeatureMutableGlobal},
     WithFeatureNonTrappingFloatToIntConversion |-> {FeatureNonTrappingFloatToIntConversion},
     WithFeatureReferenceTypes |-> {FeatureReferenceTypes, FeatureBulkMemoryOperations},
     WithFeatureSignExtensionOps |-> {FeatureSignExtensionOps}]

\* The preset of each of the two methods.
Preset == [WithWasmCore1 |-> Features20191205, WithWasmCore2 |-> Features20220419]

\* C20: whatever features the receiver has enabled, the configuration returned by
\* WithWasmCore1 has exactly the features of WebAssembly 1.0 enabled and the one
\* returned by WithWasmCore2 exactly those of the 2.0 draft; a toggle called on the
\* configuration just returned yields the preset with the toggled features switched.
C20_PresetOverwrites ==
    [][/\ rcLast'.method \in DOMAIN Preset
          => rcHeap'[rcLast'.ret].enabledFeatures = Preset[rcLast'.method]
       /\ (/\ rcLast.method \in DOMAIN Preset
           /\ rcLast'.method \in DOMAIN ToggledFeatures
           /\ rcLast'.recv = rcLast.ret)
          => rcHeap'[rcLast'.ret].enabledFeatures =
                 IF rcLast'.arg
                 THEN Preset[rcLast.method] \cup ToggledFeatures[rcLast'.method]
                 ELSE Preset[rcLast.method] \ ToggledFeatures[rcLast'.method]]_vars

\* WithWasmCore1 was called on a configuration with multi-value enabled by an earlier
\* toggle, and returned one with the 1.0 features only.
C20_Witness ==
    /\ rcLast.method = "WithWasmCore1"
    /\ FeaturesGet(rcHeap[rcLast.recv].enabledFeatures, FeatureMultiValue)
    /\ rcHeap[rcLast.ret].enabledFeatures = Features20191205
    /\ rcLast.ret # rcLast.recv

(***************************************************************************)
(* Properties of the feature toggles                                       *)
(***************************************************************************)

\* The feature each toggle is named after.
ToggledFeature ==
    [WithFeatureBulkMemoryOperations |-> FeatureBulkMemoryOperations,
     WithFeatureMultiValue |-> FeatureMultiValue,
     WithFeatureMutableGlobal |-> FeatureMutableGlobal,
     WithFeatureNonTrappingFloatToIntConversion |-> FeatureNonTrappingFloatToIntConversion,
     WithFeatureReferenceTypes |-> FeatureReferenceTypes,
     WithFeatureSignExtensionOps |-> FeatureSignExtensionOps]

\* C21: a toggle WithFeatureX(v) called on any RuntimeConfig returns a configuration
\* in which X is enabled exactly when v is true, whatever X was in the receiver, and
\* in which every feature other than X and, for the pair of bulk-memory-operations
\* and reference-types, other than X's partner is as it was in the receiver.
C21_ToggleSetsOnlyItsFeature ==
    [][rcLast'.method \in DOMAIN ToggledFeature
       => LET before == rcHeap[rcLast'.recv].enabledFeatures
              after == rcHeap'[rcLast'.ret].enabledFeatures
          IN  /\ FeaturesGet(after, ToggledFeature[rcLast'.method]) <=> rcLast'.arg
              /\ \A f \in Features20220419 \ ToggledFeatures[rcLast'.method] :
                    FeaturesGet(after, f) <=> FeaturesGet(before, f)]_vars

\* WithFeatureMultiValue(false) was called on the 2.0 preset: multi-value went off
\* and the other five features stayed on.
C21_Witness ==
    /\ rcLast.method = "WithFeatureMultiValue"
    /\ rcLast.arg = FALSE
    /\ rcHeap[rcLast.recv].enabledFeatures = Features20220419
    /\ rcHeap[rcLast.ret].enabledFeatures = Features20220419 \ {FeatureMultiValue}

(***************************************************************************)
(* Properties of import resolution: stricter limits                        *)
(***************************************************************************)

\* The limits of the import i as a pair of Min and optional Max.
DeclaredLimits(i) ==
    IF i.Type = ExternTypeTable
    THEN [Min |-> i.DescTable.Min, Max |-> i.DescTable.Max]
    ELSE [Min |-> i.DescMem.Min,
          Max |-> IF i.DescMem.IsMaxEncoded THEN <<i.DescMem.Max>> ELSE <<>>]

\* The bounds of the exported instance the import i names: a memory instance never
\* grows above its Max, a table without a Max has no upper bound.
ExportedLimits(i) ==
    IF i.Type = ExternTypeTable
    THEN [Min |-> ExportedTable.Min, Max |-> ExportedTable.Max]
    ELSE [Min |-> ExportedMemory.Min, Max |-> <<ExportedMemory.Max>>]

\* The limits s are at least as strict as the limits l: Min not lower, and a Max
\* wherever l has one, not higher.
Stricter(s, l) ==
    /\ s.Min >= l.Min
    /\ l.Max # <<>> => (s.Max # <<>> /\ s.Max[1] <= l.Max[1])

\* An instance with the bounds actual is within the declared limits.
Satisfies(actual, declared) ==
    /\ actual.Min >= declared.Min
    /\ declared.Max # <<>> => (actual.Max # <<>> /\ actual.Max[1] <= declared.Max[1])

\* C22: when a table or memory import has resolved against an exported instance, the
\* same import with stricter declared limits (a higher Min, a lower Max, a Max where
\* there was none) that the exported instance is still within resolves as well.
C22_StricterLimitsResolve ==
    [][(/\ resolved.kind \in {ExternTypeTable, ExternTypeMemory}
        /\ resolved'.kind = resolved.kind
        /\ resolved.r.err = nil
        /\ resolved.kind = ExternTypeTable
               => resolved'.import.DescTable.Type = resolved.import.DescTable.Type
        /\ Stricter(DeclaredLimits(resolved'.import), DeclaredLimits(resolved.import))
        /\ Satisfies(ExportedLimits(resolved'.import), DeclaredLimits(resolved'.import)))
       => resolved'.r.err = nil]_vars

\* The strictest import the exported table is within, the one that declares the
\* table's own Min and Max, resolved.
C22_Witness ==
    /\ resolved.kind = ExternTypeTable
    /\ resolved.r.err = nil
    /\ ExportedTable.Max # <<>>
    /\ resolved.import.DescTable.Max = ExportedTable.Max
    /\ resolved.import.DescTable.Min = ExportedTable.Min
    /\ ExportedTable.Min > 0

(***************************************************************************)
(* moduleBuilder.Build and moduleBuilder.Instantiate                       *)
(***************************************************************************)

\* The memories a builder exports: none, a valid one, one whose min exceeds its max,
\* one whose max exceeds the limit of the runtime.
BuilderMemories ==
    {NilPtr, <<ExportMemoryWithMax(0, 1)>>, <<ExportMemoryWithMax(2, 1)>>,
     <<ExportMemoryWithMax(0, MemoryLimitPages + 1)>>}

\* The steps of Build whose outcome the collaborators decide; "" when none fails.
BuildFailures == {"", "setMemoryCapacity", "NewHostModule", "CompileModule"}

\* Engine.CompileModule: [the cache after the call, the error]. The call is
\* idempotent: a module that is compiled already stays compiled and the call
\* succeeds; a compilation that fails caches nothing.
EngineCompileModule(cache, module, fails) ==
    IF module \in cache THEN [cachedModules |-> cache, err |-> nil]
    ELSE IF fails
         THEN [cachedModules |-> cache,
               err |-> Errorf("compilation failed", "compilation failed")]
         ELSE [cachedModules |-> cache \cup {module}, err |-> nil]

\* Engine.DeleteCompiledModule: the cache after the call.
EngineDeleteCompiledModule(cache, module) == cache \ {module}

\* moduleBuilder.Build: [the module or 0, the cache after the call, the error].
\* module is the *Module that NewHostModule allocates.
Build(cache, module, mem, failure) ==
    IF mem # NilPtr /\ ~ValidateMinMax(mem[1], MemoryLimitPages)
    THEN [module |-> 0, cachedModules |-> cache,
          err |-> Errorf("memory", "memory[memory] invalid")]
    ELSE IF mem # NilPtr /\ failure = "setMemoryCapacity"
    THEN [module |-> 0, cachedModules |-> cache,
          err |-> Errorf("setMemoryCapacity", "setMemoryCapacity failed")]
    ELSE IF failure = "NewHostModule"
    THEN [module |-> 0, cachedModules |-> cache,
          err |-> Errorf("NewHostModule", "NewHostModule failed")]
    ELSE LET r == EngineCompileModule(cache, module, failure = "CompileModule") IN
         [module |-> IF r.err # nil THEN 0 ELSE module, cachedModules |-> r.cachedModules,
          err |-> r.err]

\* moduleBuilder.Instantiate has returned: the frame keeps what the caller sees
\* and the module that Build allocated.
BuilderReturn(frame, module, err, ret) ==
    [IdleFrame EXCEPT !.pc = "returned", !.module = module, !.name = frame.name,
                      !.err = err, !.ret = ret, !.reserved = frame.reserved]

\* moduleBuilder.Instantiate up to the return of b.Build. NewHostModule allocates a
\* *Module that no other call holds.
BuilderBuild(p, module, mem, failure) ==
    /\ calls[p].pc = "idle"
    /\ IF p = 1 THEN TRUE ELSE calls[p - 1].pc # "idle"
    /\ \A q \in Procs \ {p} : calls[q].module # module
    /\ LET r == Build(cachedModules, module, mem, failure) IN
       /\ cachedModules' = r.cachedModules
       /\ calls' = [calls EXCEPT ![p] =
                       IF r.err # nil
                       THEN BuilderReturn(@, module, r.err, FALSE)
                       ELSE [@ EXCEPT !.pc = "built", !.module = module]]
    /\ UNCHANGED <<moduleNames, modules, typeIDs, memories>>
    /\ StoreFrame

\* moduleBuilder.Instantiate: the second Engine.CompileModule; when it fails the
\* call returns before compiled.Close is deferred.
BuilderCompileModule(p, fails) ==
    /\ calls[p].pc = "built"
    /\ LET r == EngineCompileModule(cachedModules, calls[p].module, fails) IN
       /\ cachedModules' = r.cachedModules
       /\ calls' = [calls EXCEPT ![p] =
                       IF r.err # nil
                       THEN BuilderReturn(@, calls[p].module, r.err, FALSE)
                       ELSE [@ EXCEPT !.pc = "compiled"]]
    /\ UNCHANGED <<moduleNames, modules, typeIDs, memories>>
    /\ StoreFrame

\* The deferred call without DeleteCompiledModule.
BuilderDeferredCloseKeeps(p) ==
    /\ calls[p].pc = "done"
    /\ calls' = [calls EXCEPT ![p] = [@ EXCEPT !.pc = "returned"]]
    /\ UNCHANGED <<moduleNames, modules, typeIDs, memories, cachedModules>>
    /\ StoreFrame

\* defer compiled.Close(ctx): it runs when InstantiateModuleWithConfig has returned,
\* whatever it returned, and then moduleBuilder.Instantiate returns.
BuilderDeferredClose(p) ==
    /\ calls[p].pc = "done"
    /\ cachedModules' = EngineDeleteCompiledModule(cachedModules, calls[p].module)
    /\ calls' = [calls EXCEPT ![p] = [@ EXCEPT !.pc = "returned"]]
    /\ UNCHANGED <<moduleNames, modules, typeIDs, memories>>
    /\ StoreFrame

BuilderInit == StoreInit

\* InstantiateModuleWithConfig with NewModuleConfig().WithName(b.moduleName) is
\* Store.Instantiate of the built module under the builder's name.
BuilderNext ==
    \/ \E p \in Procs, module \in 1..Len(StoreModules), mem \in BuilderMemories,
          failure \in BuildFailures : BuilderBuild(p, module, mem, failure)
    \/ \E p \in Procs, fails \in BOOLEAN : BuilderCompileModule(p, fails)
    \/ \E p \in Procs, name \in ModuleNames : RequireModuleName(p, name)
    \/ \E p \in Procs : GetFunctionTypeIDs(p)
    \/ \E p \in Procs : ResolveImports(p)
    \/ \E p \in Procs : BuildInstance(p)
    \/ \E p \in Procs : ValidateData(p)
    \/ \E p \in Procs, fails \in BOOLEAN : NewModuleEngine(p, fails)
    \/ \E p \in Procs : ApplyData(p)
    \/ \E p \in Procs, fails \in BOOLEAN : Start(p, fails)
    \/ \E p \in Procs : AddModule(p)
    \/ \E p \in Procs : DeleteModule(p)
    \/ \E p \in Procs : BuilderDeferredClose(p)

SpecBuilder == BuilderInit /\ [][BuilderNext]_vars

StoreModule(moduleName) ==
    IF moduleName \in DOMAIN modules THEN <<modules[moduleName]>> ELSE NilPtr

\* Store.Instantiate returned the CallContext of the instance.
Succeeded(p) == Returned(p) /\ calls[p].ret /\ calls[p].err = nil

\* No instantiation under the name has succeeded: each is in flight or has failed.
NotInstantiated(n) == \A p \in CallsOf(n) : ~Succeeded(p)

\* Goroutine q leaves resolveImports in this step.
ResolvesImports(q) == calls[q].pc = "resolveImports" /\ calls'[q].pc # "resolveImports"

\* C24: a module instance is visible through Store.Module and to the import
\* resolution of other modules only once its instantiation has succeeded, start
\* function included: while no instantiation under a name has succeeded (each is in
\* flight or has failed) Store.Module(name) is nil, and an import from that name
\* fails with "module[name] not instantiated"; once one has succeeded the instance
\* is published.
C24_VisibleOnlyAfterSuccess ==
    /\ [](\A n \in ModuleNames :
             /\ NotInstantiated(n) => StoreModule(n) = NilPtr
             /\ ~NotInstantiated(n) => StoreModule(n) # NilPtr)
    /\ [][\A q \in Procs :
             (/\ ResolvesImports(q)
              /\ Modules[calls[q].module].ImportSection # <<>>
              /\ NotInstantiated(Modules[calls[q].module].ImportSection[1].Module))
             => calls'[q].err.msg
                   = "module[" \o Modules[calls[q].module].ImportSection[1].Module
                         \o "] not instantiated"]_vars

\* An instantiation under "a" is past its start function and not yet published:
\* Store.Module("a") is nil, and an importer of "a" has been refused meanwhile.
C24_Witness ==
    \E q, r \in Procs :
        /\ calls[q].name = "a" /\ calls[q].pc = "addModule"
        /\ Modules[calls[q].module].StartSection # <<>>
        /\ Returned(r) /\ calls[r].err.msg = "module[a] not instantiated"
        /\ StoreModule("a") = NilPtr

(***************************************************************************)
(* The order of validateData and NewModuleEngine                           *)
(***************************************************************************)

\* Goroutine p leaves m.validateData in this step.
ValidatesData(p) == calls[p].pc = "validateData" /\ calls'[p].pc # "validateData"

DataOutOfBounds(frame) == frame.err.kind = "out of bounds memory access"

\* Goroutine p calls Engine.NewModuleEngine in this step.
CreatesModuleEngine(p) == calls[p].pc = "NewModuleEngine" /\ calls'[p].pc # "NewModuleEngine"

\* C25 as stated: the module engine is created before the active data segments are
\* validated, so a data-segment bounds failure occurs only when the back-end has
\* created the module engine.
C25_EngineBeforeValidateData ==
    [][\A p \in Procs :
          (ValidatesData(p) /\ DataOutOfBounds(calls'[p])) => calls[p].m.Engine]_vars

\* C25 as amended: the active data segments are validated before the module engine
\* is created: validateData runs on an instance without an engine, a bounds failure
\* ends the instantiation with no engine created for it, and NewModuleEngine is
\* called only for an instance whose active data segments are all in bounds.
C25_ValidateDataBeforeEngine ==
    [][\A p \in Procs :
          /\ ValidatesData(p)
             => /\ ~calls[p].m.Engine
                /\ IF DataOutOfBounds(calls'[p])
                   THEN calls'[p].pc = "deleteModule" /\ ~calls'[p].m.Engine
                   ELSE calls'[p].pc = "NewModuleEngine"
          /\ CreatesModuleEngine(p)
             => /\ validateData(calls[p].m, memories, Modules[calls[p].module].DataSection) = nil
                /\ ~calls[p].m.Engine]_vars

\* A data segment was found out of bounds and the instance has no engine; another
\* instance has passed validateData and has its engine.
C25_Witness ==
    \E p, q \in Procs :
        /\ calls[p].pc = "deleteModule" /\ DataOutOfBounds(calls[p]) /\ ~calls[p].m.Engine
        /\ calls[q].pc = "applyData" /\ calls[q].m.Engine
        /\ Modules[calls[q].module].DataSection # <<>>

(***************************************************************************)
(* Store.Instantiate of modules with data segments, module "a" published   *)
(***************************************************************************)

\* The modules instantiated: ImporterModule, which writes into the memory of "a"
\* and has a start function, and the data modules.
DataModuleIndexes ==
    {2} \cup (Len(StoreModules) + Len(UnresolvableModules) + 1)..Len(Modules)

DataInit == ImportErrorsInit

DataNext ==
    \/ \E p \in Procs, module \in DataModuleIndexes : CompileModule(p, module)
    \/ \E p \in Procs, name \in ModuleNames : RequireModuleName(p, name)
    \/ \E p \in Procs : GetFunctionTypeIDs(p)
    \/ \E p \in Procs : ResolveImports(p)
    \/ \E p \in Procs : BuildInstance(p)
    \/ \E p \in Procs : ValidateData(p)
    \/ \E p \in Procs, fails \in BOOLEAN : NewModuleEngine(p, fails)
    \/ \E p \in Procs : ApplyData(p)
    \/ \E p \in Procs, fails \in BOOLEAN : Start(p, fails)
    \/ \E p \in Procs : AddModule(p)
    \/ \E p \in Procs : DeleteModule(p)
    \/ \E p \in Procs : Close(p)

SpecData == DataInit /\ [][DataNext]_vars

\* The length in bytes of the memory that an instance of the module writes to: the
\* memory of "a" when it imports one, else its own.
MemoryLength(module) ==
    IF module.ImportSection # <<>>
    THEN Len(memories[ExporterMemory].Buffer)
    ELSE module.MemorySection[1].Min * MemoryPageSize

\* The module has an active segment whose destination is not within the memory.
SegmentOutOfBounds(module) ==
    \E k \in 1..Len(module.DataSection) :
        LET d == module.DataSection[k] IN
        /\ ~d.Passive
        /\ \/ d.OffsetExpression.Data < 0
           \/ d.OffsetExpression.Data + Len(d.Init) > MemoryLength(module)

\* Goroutine p takes a step of an instantiation that has passed buildMemory.
StepsWithMemory(p) ==
    /\ calls[p].pc \in {"validateData", "NewModuleEngine", "applyData", "start",
                        "addModule", "deleteModule"}
    /\ calls'[p] # calls[p]

\* C26: every active data segment is checked (offset >= 0 and offset + length within
\* the memory) before any byte of any segment is copied: when a module has a segment
\* out of bounds, validateData ends the instantiation with "out of bounds memory
\* access", Instantiate returns that error and no step of it changes a byte of a
\* memory, the imported memory of module "a" included.
C26_DataValidatedBeforeCopy ==
    [][\A p \in Procs :
          (StepsWithMemory(p) /\ SegmentOutOfBounds(Modules[calls[p].module]))
          => /\ \A k \in DOMAIN memories \cap DOMAIN memories' :
                   memories'[k].Buffer = memories[k].Buffer
             /\ calls[p].pc = "validateData"
                => /\ calls'[p].pc = "deleteModule"
                   /\ calls'[p].err.msg = "out of bounds memory access"
             /\ calls[p].pc = "deleteModule"
                => /\ calls'[p].pc = "done" /\ ~calls'[p].ret
                   /\ calls'[p].err.msg = "out of bounds memory access"
             /\ calls[p].pc \in {"validateData", "deleteModule"}]_vars

\* Instantiate returned "out of bounds memory access" for a module that imports the
\* memory of "a" and whose first active segment is in bounds; the memory of "a" is as
\* the instantiation of "a" left it.
C26_Witness ==
    \E p \in Procs :
        /\ calls[p].pc = "done"
        /\ calls[p].err.msg = "out of bounds memory access"
        /\ Modules[calls[p].module].ImportSection # <<>>
        /\ LET d == Modules[calls[p].module].DataSection[1] IN
           ~d.Passive /\ d.OffsetExpression.Data >= 0
               /\ d.OffsetExpression.Data + Len(d.Init) <= MemoryLength(Modules[calls[p].module])
        /\ memories[ExporterMemory] = PublishedExporter.memories[ExporterMemory]

(***************************************************************************)
(* FunctionTypeIDs are dense                                               *)
(***************************************************************************)

\* The FunctionTypeIDs the Store has assigned.
AssignedTypeIDs == {typeIDs[key] : key \in DOMAIN typeIDs}

\* The distinct types among the first i of ts that the Store has not interned.
NewAmong(ts, i) == {String(ts[j]) : j \in 1..i} \ DOMAIN typeIDs

\* C27: the FunctionTypeIDs assigned by a Store are exactly 0..k-1 for the k distinct
\* types interned so far, no two types sharing one; a type seen for the first time
\* receives the number of types interned before it.
C27_TypeIDsDense ==
    /\ [](/\ AssignedTypeIDs = 0..(Cardinality(DOMAIN typeIDs) - 1)
          /\ \A k1, k2 \in DOMAIN typeIDs : typeIDs[k1] = typeIDs[k2] => k1 = k2)
    /\ [][\A p \in Procs :
             (calls[p].pc = "getFunctionTypeIDs" /\ calls'[p].pc # "getFunctionTypeIDs")
             => LET ts == Modules[calls[p].module].TypeSection IN
                \A i \in 1..Len(ts) :
                    (String(ts[i]) \notin DOMAIN typeIDs /\ String(ts[i]) \in DOMAIN typeIDs')
                    => typeIDs'[String(ts[i])]
                          = Cardinality(DOMAIN typeIDs) + Cardinality(NewAmong(ts, i - 1))]_vars

\* Two goroutines have interned their types, one type being common to both modules:
\* three types hold the IDs 0, 1 and 2, and each goroutine added at least one.
C27_Witness ==
    /\ Cardinality(DOMAIN typeIDs) = 3
    /\ AssignedTypeIDs = {0, 1, 2}
    /\ \E p, q \in Procs :
           /\ p # q
           /\ calls[p].typeIDs # <<>> /\ calls[q].typeIDs # <<>>
           /\ calls[p].typeIDs # calls[q].typeIDs
           /\ \E i \in DOMAIN calls[p].typeIDs : \E j \in DOMAIN calls[q].typeIDs :
                 calls[p].typeIDs[i] = calls[q].typeIDs[j]

(***************************************************************************)
(* Store.mux: the sections of Store.Instantiate and Store.Module under it  *)
(***************************************************************************)

\* The mutant of MuxMode: addModule takes the lock shared.
MuxModeAddModuleShared ==
    [compiled |-> "Lock", getFunctionTypeIDs |-> "Lock", resolveImports |-> "RLock",
     addModule |-> "RLock", deleteModule |-> "Lock", module |-> "RLock"]

\* How each function that reads or writes s.moduleNames, s.modules or s.typeIDs
\* takes s.mux, by the position of the goroutine that is about to call it: "compiled"
\* is the entry of requireModuleName, "module" the entry of Store.module.
MuxMode ==
    [compiled |-> "Lock", getFunctionTypeIDs |-> "Lock", resolveImports |-> "RLock",
     addModule |-> "Lock", deleteModule |-> "Lock", module |-> "RLock"]

\* The goroutines other than p hold s.mux in none of the modes.
NoneHolds(p, modes) == \A q \in Procs \ {p} : calls[q].mux.mode \notin modes

\* s.mux.Lock() or s.mux.RLock() at the entry of a function: Lock waits until nobody
\* holds the lock, RLock until no writer holds it.
MuxAcquire(p) ==
    /\ calls[p].pc \in DOMAIN MuxMode
    /\ calls[p].mux = NoLock
    /\ IF MuxMode[calls[p].pc] = "Lock"
       THEN NoneHolds(p, {"Lock", "RLock"})
       ELSE NoneHolds(p, {"Lock"})
    /\ calls' = [calls EXCEPT ![p].mux = [mode |-> MuxMode[calls[p].pc], pc |-> calls[p].pc]]
    /\ UNCHANGED <<moduleNames, modules, typeIDs, memories, cachedModules>>
    /\ StoreFrame

\* The goroutine has taken s.mux for the function it is about to run.
MuxHeld(p) == calls[p].mux.mode # "" /\ calls[p].mux.pc = calls[p].pc

\* The deferred s.mux.Unlock() or s.mux.RUnlock() of a function that has run and
\* whose caller goes on; a function whose caller returns releases in that step.
MuxRelease(p) ==
    /\ calls[p].mux.mode # ""
    /\ calls[p].mux.pc # calls[p].pc
    /\ calls' = [calls EXCEPT ![p].mux = NoLock]
    /\ UNCHANGED <<moduleNames, modules, typeIDs, memories, cachedModules>>
    /\ StoreFrame

\* The goroutine holds nothing of s.mux: it runs code outside the locked functions.
MuxFree(p) == calls[p].mux = NoLock

\* A caller that has its CallContext asks for a module by name.
CallStoreModule(p) ==
    /\ calls[p].pc = "done"
    /\ calls' = [calls EXCEPT ![p].pc = "module"]
    /\ UNCHANGED <<moduleNames, modules, typeIDs, memories, cachedModules>>
    /\ StoreFrame

\* Store.module: return s.modules[moduleName]; Store.Module returns its CallCtx.
StoreModuleLookup(p, moduleName) ==
    /\ calls[p].pc = "module"
    /\ calls' = [calls EXCEPT ![p] =
                    [Return(@, nil, StoreModule(moduleName) # NilPtr) EXCEPT !.pc = "closed"]]
    /\ UNCHANGED <<moduleNames, modules, typeIDs, memories, cachedModules>>
    /\ StoreFrame

\* The modules SpecMux instantiates: ExporterModule and ImporterModule.
MuxModules == {1, 2}

MuxInit == StoreInit

MuxNext ==
    \/ \E p \in Procs, module \in MuxModules : CompileModule(p, module)
    \/ \E p \in Procs : MuxAcquire(p)
    \/ \E p \in Procs : MuxRelease(p)
    \/ \E p \in Procs, name \in ModuleNames : MuxHeld(p) /\ RequireModuleName(p, name)
    \/ \E p \in Procs : MuxHeld(p) /\ GetFunctionTypeIDs(p)
    \/ \E p \in Procs : MuxHeld(p) /\ ResolveImports(p)
    \/ \E p \in Procs : MuxFree(p) /\ BuildInstance(p)
    \/ \E p \in Procs : MuxFree(p) /\ ValidateData(p)
    \/ \E p \in Procs, fails \in BOOLEAN : MuxFree(p) /\ NewModuleEngine(p, fails)
    \/ \E p \in Procs : MuxFree(p) /\ ApplyData(p)
    \/ \E p \in Procs, fails \in BOOLEAN : MuxFree(p) /\ Start(p, fails)
    \/ \E p \in Procs : MuxHeld(p) /\ AddModule(p)
    \/ \E p \in Procs : MuxHeld(p) /\ DeleteModule(p)
    \/ \E p \in Procs : CallStoreModule(p)
    \/ \E p \in Procs, name \in ModuleNames : MuxHeld(p) /\ StoreModuleLookup(p, name)

SpecMux == MuxInit /\ [][MuxNext]_vars

\* The functions that write one of the three maps, and those that only read them,
\* by the position of the goroutine that is about to run them.
Mutators == {"compiled", "getFunctionTypeIDs", "addModule", "deleteModule"}
Readers == {"resolveImports", "module"}

\* Goroutine p runs the function at its position in this step.
Runs(p) == calls[p].pc \in Mutators \cup Readers /\ calls'[p].pc # calls[p].pc

\* C28: every access to the reserved names, the module map and the type-ID map is
\* made under Store.mux: lookup and import resolution hold it shared; reservation,
\* type interning, publication and deletion hold it exclusively; so a goroutine
\* writes the maps only while no other goroutine holds the lock, reads them only
\* while no other goroutine holds it exclusively, and no step outside these
\* functions changes a map.
C28_MapsUnderMux ==
    /\ [](\A p, q \in Procs :
             (p # q /\ calls[p].mux.mode = "Lock") => calls[q].mux.mode = "")
    /\ [][/\ \A p \in Procs :
                Runs(p)
                => IF calls[p].pc \in Mutators
                   THEN calls[p].mux.mode = "Lock" /\ NoneHolds(p, {"Lock", "RLock"})
                   ELSE /\ calls[p].mux.mode = "RLock" /\ NoneHolds(p, {"Lock"})
                        /\ UNCHANGED <<moduleNames, modules, typeIDs>>
          /\ (\A p \in Procs : ~Runs(p)) => UNCHANGED <<moduleNames, modules, typeIDs>>]_vars

\* Two goroutines hold the lock shared at once, one in resolveImports and one in
\* Store.module, after a module was published under the exclusive lock.
C28_Witness ==
    \E p, q \in Procs :
        /\ calls[p].pc = "resolveImports" /\ calls[p].mux.mode = "RLock"
        /\ calls[q].pc = "module" /\ calls[q].mux.mode = "RLock"
        /\ modules # <<>>

(***************************************************************************)
(* binary.decodeConstantExpression                                         *)
(***************************************************************************)

\* The longest input after the opcode byte.
MaxBodyLen == 5

OpcodeByteUnreachable == 0
OpcodeByteEnd == 11
OpcodeByteGlobalGet == 35
OpcodeByteI32Const == 65
OpcodeByteI64Const == 66
OpcodeByteF32Const == 67
OpcodeByteF64Const == 68
OpcodeByteRefNull == 208
OpcodeByteRefFunc == 210
RefTypeByteFuncref == 112
RefTypeByteExternref == 111

\* The first bytes of the inputs: the opcodes of constant expressions and one that
\* is none.
FirstBytes ==
    {OpcodeByteI32Const, OpcodeByteI64Const, OpcodeByteF32Const, OpcodeByteF64Const,
     OpcodeByteGlobalGet, OpcodeByteRefNull, OpcodeByteRefFunc, OpcodeByteUnreachable}

\* The bytes that follow: a LEB128 byte that ends a number, one that continues it,
\* the end opcode and the two reference types.
BodyBytes == {0, 128, OpcodeByteEnd, RefTypeByteFuncref, RefTypeByteExternref}

RECURSIVE SeqsOver(_, _)
SeqsOver(S, n) ==
    IF n = 0 THEN {<<>>}
    ELSE LET shorter == SeqsOver(S, n - 1) IN
         shorter \cup {Append(q, b) : q \in {x \in shorter : Len(x) = n - 1}, b \in S}

\* The inputs of decodeConstantExpression: the empty reader and an opcode byte
\* followed by up to MaxBodyLen bytes.
ConstantExpressionInputs ==
    {<<>>} \cup {<<op>> \o rest : op \in FirstBytes, rest \in SeqsOver(BodyBytes, MaxBodyLen)}

OpcodeName(b) == IF b = OpcodeByteRefNull THEN "ref.null" ELSE "ref.func"

\* Features.Require: the error, nil when the feature is enabled.
Require(features, feature) ==
    IF FeaturesGet(features, feature) THEN nil
    ELSE Errorf("feature disabled", "feature \"" \o feature \o "\" is disabled")

\* leb128 decoding of a 32- or 64-bit number from position pos (1-based): the bytes
\* up to the first one without the continuation bit, at most maxBytes of them.
\* [n: the bytes read, err].
RECURSIVE DecodeLEB128(_, _, _, _)
DecodeLEB128(in, pos, n, maxBytes) ==
    IF pos + n > Len(in) THEN [n |-> n, err |-> Errorf("EOF", "EOF")]
    ELSE IF n >= maxBytes THEN [n |-> n, err |-> Errorf("overflow", "overflow")]
    ELSE IF in[pos + n] < 128 THEN [n |-> n + 1, err |-> nil]
    ELSE DecodeLEB128(in, pos, n + 1, maxBytes)

\* ieee754 decoding: size bytes are read.
DecodeFloat(in, pos, size) ==
    IF pos + size - 1 > Len(in)
    THEN [n |-> Len(in) - pos + 1, err |-> Errorf("EOF", "EOF")]
    ELSE [n |-> size, err |-> nil]

ConstantExpression(opcode, data) == <<[Opcode |-> opcode, Data |-> data]>>

\* The end of decodeConstantExpression, the immediate of n bytes read from position
\* 2: the end opcode is looked for and the immediate's bytes are read again.
decodeConstantExpressionEnd(in, n) ==
    IF 2 + n > Len(in)
    THEN [expr |-> NilPtr, err |-> Errorf("look for end opcode", "look for end opcode: EOF")]
    ELSE IF in[2 + n] # OpcodeByteEnd
    THEN [expr |-> NilPtr,
          err |-> Errorf("not terminated", "constant expression has been not terminated")]
    ELSE [expr |-> ConstantExpression(in[1], SubSeq(in, 2, 1 + n)), err |-> nil]

\* The mutant of decodeConstantExpression for ref.null: every reference type passes.
decodeRefNullAnyType(in, features) ==
    IF Require(features, FeatureBulkMemoryOperations) # nil
    THEN [expr |-> NilPtr,
          err |-> Errorf("not supported",
                         "ref.null is not supported as "
                             \o Require(features, FeatureBulkMemoryOperations).msg)]
    ELSE IF Len(in) < 2
    THEN [expr |-> NilPtr, err |-> Errorf("read reference type", "read reference type for ref.null: EOF")]
    ELSE decodeConstantExpressionEnd(in, 1)

\* decodeConstantExpression, case OpcodeRefNull.
decodeRefNull(in, features) ==
    IF Require(features, FeatureBulkMemoryOperations) # nil
    THEN [expr |-> NilPtr,
          err |-> Errorf("not supported",
                         "ref.null is not supported as "
                             \o Require(features, FeatureBulkMemoryOperations).msg)]
    ELSE IF Len(in) < 2
    THEN [expr |-> NilPtr, err |-> Errorf("read reference type", "read reference type for ref.null: EOF")]
    ELSE IF in[2] # RefTypeByteFuncref
    THEN [expr |-> NilPtr,
          err |-> Errorf("must be of funcref type",
                         "ref.null instruction in constant expression must be of funcref type")]
    ELSE decodeConstantExpressionEnd(in, 1)

\* decodeConstantExpression: [the *ConstantExpression or nil, the error].
decodeConstantExpression(in, features) ==
    IF in = <<>> THEN [expr |-> NilPtr, err |-> Errorf("read opcode", "read opcode: EOF")]
    ELSE IF in[1] = OpcodeByteRefNull THEN decodeRefNull(in, features)
    ELSE IF in[1] = OpcodeByteRefFunc /\ Require(features, FeatureBulkMemoryOperations) # nil
    THEN [expr |-> NilPtr,
          err |-> Errorf("not supported",
                         "ref.func is not supported as "
                             \o Require(features, FeatureBulkMemoryOperations).msg)]
    ELSE IF in[1] \notin {OpcodeByteI32Const, OpcodeByteI64Const, OpcodeByteF32Const,
                          OpcodeByteF64Const, OpcodeByteGlobalGet, OpcodeByteRefFunc}
    THEN [expr |-> NilPtr, err |-> Errorf("invalid byte", "invalid byte for const expression opt code")]
    ELSE LET v == CASE in[1] = OpcodeByteI64Const -> DecodeLEB128(in, 2, 0, 10)
                    [] in[1] = OpcodeByteF32Const -> DecodeFloat(in, 2, 4)
                    [] in[1] = OpcodeByteF64Const -> DecodeFloat(in, 2, 8)
                    [] OTHER -> DecodeLEB128(in, 2, 0, 5)
         IN  IF v.err # nil
             THEN [expr |-> NilPtr, err |-> Errorf("read value", "read value: " \o v.err.msg)]
             ELSE decodeConstantExpressionEnd(in, v.n)

\* The feature sets the decoder is called with.
DecoderFeatures == {Features20191205, FeaturesSet(Features20191205, FeatureBulkMemoryOperations, TRUE)}

NotDecoded == [expr |-> NilPtr, err |-> nil]

ConstExprInit ==
    /\ decoded \in [in : ConstantExpressionInputs, features : DecoderFeatures,
                    done : {FALSE}, r : {NotDecoded}]
    /\ StoreUnused
    /\ RuntimeConfigUnused
    /\ ModuleConfigUnused

\* decodeConstantExpression(bytes.NewReader(in), features)
DecodeConstantExpression ==
    /\ ~decoded.done
    /\ decoded' = [decoded EXCEPT !.done = TRUE,
                                  !.r = decodeConstantExpression(decoded.in, decoded.features)]
    /\ UNCHANGED storeVars
    /\ UNCHANGED rcVars
    /\ UNCHANGED mcVars

ConstExprNext == DecodeConstantExpression

SpecConstExpr == ConstExprInit /\ [][ConstExprNext]_vars

\* The bytes d are the whole immediate of the opcode: a LEB128 number is a run of
\* continuation bytes closed by one byte below 128, a float has its fixed size, the
\* immediate of ref.null is one reference type.
IsImmediate(opcode, d) ==
    LET IsLEB128(maxBytes) ==
            /\ Len(d) \in 1..maxBytes
            /\ d[Len(d)] < 128
            /\ \A i \in 1..(Len(d) - 1) : d[i] >= 128
    IN  CASE opcode \in {OpcodeByteI32Const, OpcodeByteGlobalGet, OpcodeByteRefFunc} -> IsLEB128(5)
          [] opcode = OpcodeByteI64Const -> IsLEB128(10)
          [] opcode = OpcodeByteF32Const -> Len(d) = 4
          [] opcode = OpcodeByteF64Const -> Len(d) = 8
          [] opcode = OpcodeByteRefNull -> Len(d) = 1
          [] OTHER -> FALSE

\* The input starts with one producing opcode, its immediate of n bytes and the end
\* opcode.
IsConstantExpression(in, n) ==
    /\ Len(in) >= n + 2
    /\ IsImmediate(in[1], SubSeq(in, 2, n + 1))
    /\ in[n + 2] = OpcodeByteEnd

BulkMemoryOn == FeaturesGet(decoded.features, FeatureBulkMemoryOperations)

\* C29: decodeConstantExpression accepts only one producing opcode with its
\* immediate followed by the end opcode, and returns the opcode and the immediate's
\* bytes as they are encoded; an input that ends before the end opcode is rejected;
\* ref.null and ref.func are rejected with "<op> is not supported as feature
\* "bulk-memory-operations" is disabled" whenever the feature is off; with the
\* feature on, ref.null of a type other than funcref is rejected.
C29_ConstantExpressionDecoding ==
    decoded.done
    => LET in == decoded.in
           r == decoded.r
       IN  /\ r.err = nil
              => /\ r.expr # NilPtr
                 /\ r.expr[1].Opcode = in[1]
                 /\ IsConstantExpression(in, Len(r.expr[1].Data))
                 /\ r.expr[1].Data = SubSeq(in, 2, Len(r.expr[1].Data) + 1)
           /\ r.err # nil => r.expr = NilPtr
           /\ (\A n \in 0..Len(in) : ~IsConstantExpression(in, n)) => r.err # nil
           /\ (in # <<>> /\ in[1] \in {OpcodeByteRefNull, OpcodeByteRefFunc} /\ ~BulkMemoryOn)
              => r.err.msg = OpcodeName(in[1])
                     \o " is not supported as feature \"bulk-memory-operations\" is disabled"
           /\ (Len(in) >= 2 /\ in[1] = OpcodeByteRefNull /\ in[2] # RefTypeByteFuncref)
              => r.err # nil

\* ref.func with the two-byte zero 0x80 0x00 and the end opcode was decoded with the
\* feature on: the result keeps both bytes.
C29_Witness ==
    /\ decoded.done
    /\ decoded.in = <<OpcodeByteRefFunc, 128, 0, OpcodeByteEnd>>
    /\ BulkMemoryOn
    /\ decoded.r.err = nil
    /\ decoded.r.expr = ConstantExpression(OpcodeByteRefFunc, <<128, 0>>)

(***************************************************************************)
(* Published names are reserved names                                      *)
(***************************************************************************)

\* C31: every key of Store.modules is in Store.moduleNames and the instance stored
\* under a key carries that key as its Name: a name is never published without
\* being reserved.
C31_PublishedIsReserved ==
    \A n \in DOMAIN modules : n \in moduleNames /\ modules[n].Name = n

\* One name is published, another one is reserved by a call in flight and not
\* published.
C31_Witness ==
    /\ \E n \in DOMAIN modules : n \in moduleNames
    /\ \E n \in moduleNames : n \notin DOMAIN modules /\ \E p \in CallsOf(n) : InFlight(p)

(***************************************************************************)
(* Store.mux and calls made from inside a start function                   *)
(***************************************************************************)

\* The mutant of LockedFunctions: the lock is also taken around the start function.
LockedFunctionsWithStart ==
    [compiled |-> "Lock", getFunctionTypeIDs |-> "Lock", resolveImports |-> "RLock",
     addModule |-> "Lock", deleteModule |-> "Lock", module |-> "RLock", start |-> "Lock"]

\* The positions of Store.Instantiate and Store.Module at which s.mux is taken, with
\* the mode: the calls of requireModuleName, getFunctionTypeIDs, resolveImports,
\* addModule, deleteModule and module. No other statement of Instantiate locks.
LockedFunctions == MuxMode

\* s.mux.Lock() or s.mux.RLock() at the entry of one of the locked functions.
NestedAcquire(p) ==
    /\ calls[p].pc \in DOMAIN LockedFunctions
    /\ calls[p].mux = NoLock
    /\ IF LockedFunctions[calls[p].pc] = "Lock"
       THEN NoneHolds(p, {"Lock", "RLock"})
       ELSE NoneHolds(p, {"Lock"})
    /\ calls' = [calls EXCEPT ![p].mux =
                    [mode |-> LockedFunctions[calls[p].pc], pc |-> calls[p].pc]]
    /\ UNCHANGED <<moduleNames, modules, typeIDs, memories, cachedModules>>
    /\ StoreFrame

\* The goroutine is ready to run the statement at its position: inside a locked
\* function with the lock taken, elsewhere with no lock held.
Ready(p) ==
    IF calls[p].pc \in DOMAIN LockedFunctions THEN MuxHeld(p) ELSE MuxFree(p)

\* Goroutine p + 1 is the host code that the start function of goroutine p runs: it
\* calls Store.Instantiate and then Store.Module on the same Store and returns.
InStartFunction(p) == calls[p].pc = "start" /\ Ready(p)

NestedCompileModule(p, module) ==
    /\ IF p = 1 THEN TRUE ELSE InStartFunction(p - 1)
    /\ CompileModule(p, module)

\* The start function returns once the host code it runs has returned.
NestedStart(p, fails) ==
    /\ Ready(p)
    /\ IF p = NumProcs THEN TRUE ELSE calls[p + 1].pc \in {"idle", "closed"}
    /\ Start(p, fails)

NestedInit == StoreInit

NestedNext ==
    \/ \E p \in Procs, module \in MuxModules : NestedCompileModule(p, module)
    \/ \E p \in Procs : NestedAcquire(p)
    \/ \E p \in Procs : MuxRelease(p)
    \/ \E p \in Procs, name \in ModuleNames : Ready(p) /\ RequireModuleName(p, name)
    \/ \E p \in Procs : Ready(p) /\ GetFunctionTypeIDs(p)
    \/ \E p \in Procs : Ready(p) /\ ResolveImports(p)
    \/ \E p \in Procs : Ready(p) /\ BuildInstance(p)
    \/ \E p \in Procs : Ready(p) /\ ValidateData(p)
    \/ \E p \in Procs, fails \in BOOLEAN : Ready(p) /\ NewModuleEngine(p, fails)
    \/ \E p \in Procs : Ready(p) /\ ApplyData(p)
    \/ \E p \in Procs, fails \in BOOLEAN : NestedStart(p, fails)
    \/ \E p \in Procs : Ready(p) /\ AddModule(p)
    \/ \E p \in Procs : Ready(p) /\ DeleteModule(p)
    \/ \E p \in Procs : Ready(p) /\ CallStoreModule(p)
    \/ \E p \in Procs, name \in ModuleNames : Ready(p) /\ StoreModuleLookup(p, name)

\* Every goroutine that can take a step eventually takes one.
SpecNested == NestedInit /\ [][NestedNext]_vars /\ WF_vars(NestedNext)

\* The functions of Store.Instantiate that the claim names, by position.
InstantiateLockedFunctions ==
    {"compiled", "getFunctionTypeIDs", "resolveImports", "deleteModule", "addModule"}

\* C32: Store.Instantiate holds s.mux only inside requireModuleName,
\* getFunctionTypeIDs, resolveImports, deleteModule and addModule, never while it
\* calls NewModuleEngine or the start function, and it returns with the lock
\* released; so a start function whose host code calls Store.Instantiate and
\* Store.Module on the same Store does not deadlock: every call that was made
\* returns.
C32_NoLockAroundStart ==
    /\ [](\A p \in Procs :
             /\ (calls[p].mux.mode # "" /\ calls[p].mux.pc # "module")
                => calls[p].mux.pc \in InstantiateLockedFunctions
             /\ calls[p].pc \in {"done", "closed"} => calls[p].mux = NoLock)
    /\ [][\A p \in Procs :
             (calls[p].pc \in {"NewModuleEngine", "start"} /\ calls'[p].pc # calls[p].pc)
             => calls[p].mux = NoLock]_vars
    /\ \A p \in Procs : (calls[p].pc # "idle") ~> (calls[p].pc = "closed")

\* The start function of goroutine 1 is running with no lock held, and the host code
\* it runs, goroutine 2, has published a module under another name and holds the
\* lock shared inside Store.Module.
C32_Witness ==
    /\ calls[1].pc = "start" /\ calls[1].mux = NoLock
    /\ calls[2].pc = "module" /\ calls[2].mux.mode = "RLock"
    /\ calls[2].name # calls[1].name
    /\ calls[2].name \in DOMAIN modules

(***************************************************************************)
(* Properties of a refused name                                            *)
(***************************************************************************)

AlreadyInstantiated == "has already been instantiated"

\* Goroutine p's call is refused in this step for its name.
Refused(p) ==
    /\ calls[p].pc = "compiled"
    /\ calls'[p].pc = "done"
    /\ calls'[p].err.kind = AlreadyInstantiated

\* C33: a Store.Instantiate call whose name is already reserved or published is
\* refused, and the refusal leaves the Store as it was: the reserved names, the
\* published instances, the interned function types and the memories are unchanged,
\* and the refused call returns at once, so it interns nothing afterwards either.
C33_RefusedLeavesStore ==
    [][\A p \in Procs :
          (calls[p].pc = "compiled" /\ calls'[p].pc # "compiled")
          => IF calls'[p].name \in moduleNames
             THEN /\ Refused(p)
                  /\ ~calls'[p].ret
                  /\ ~calls'[p].reserved
                  /\ moduleNames' = moduleNames
                  /\ modules' = modules
                  /\ typeIDs' = typeIDs
                  /\ memories' = memories
             ELSE /\ calls'[p].pc = "getFunctionTypeIDs"
                  /\ calls'[p].err = nil]_vars

\* A call has been refused for the name of a published instance, which is still
\* published and reserved, and a function type of the refused call's module is not
\* interned.
C33_Witness ==
    \E p \in Procs :
       /\ calls[p].pc = "done"
       /\ calls[p].err.kind = AlreadyInstantiated
       /\ calls[p].name \in DOMAIN modules
       /\ calls[p].name \in moduleNames
       /\ \E t \in DOMAIN Modules[calls[p].module].TypeSection :
             String(Modules[calls[p].module].TypeSection[t]) \notin DOMAIN typeIDs

(***************************************************************************)
(* Properties of interned function types                                   *)
(***************************************************************************)

\* The keys of the function types of goroutine p's module, in declaration order.
TypeKeys(p) ==
    [i \in DOMAIN Modules[calls[p].module].TypeSection |->
        String(Modules[calls[p].module].TypeSection[i])]

\* Goroutine p's call interned its types and failed afterwards, its name deleted.
FailedAfterInterning(p) ==
    /\ calls[p].pc = "done"
    /\ calls[p].err # nil
    /\ calls[p].err.kind \notin {AlreadyInstantiated, TooManyTypes}
    /\ calls[p].name \notin moduleNames

\* C34: a function type that has an ID in the Store keeps it: no step, a failing
\* instantiation and deleteModule included, removes a type or changes its ID, and
\* every interning of a type with the same key returns the ID the Store already
\* holds for it.
C34_TypeIDsStable ==
    [][/\ \A key \in DOMAIN typeIDs : key \in DOMAIN typeIDs' /\ typeIDs'[key] = typeIDs[key]
       /\ \A p \in Procs :
             (calls[p].pc = "getFunctionTypeIDs" /\ calls'[p].pc = "resolveImports")
             => /\ DOMAIN calls'[p].typeIDs = DOMAIN TypeKeys(p)
                /\ \A i \in DOMAIN TypeKeys(p) :
                      /\ calls'[p].typeIDs[i] = typeIDs'[TypeKeys(p)[i]]
                      /\ TypeKeys(p)[i] \in DOMAIN typeIDs
                         => calls'[p].typeIDs[i] = typeIDs[TypeKeys(p)[i]]]_vars

\* Goroutine p's call interned its types, failed and deleted its module; goroutine q
\* interned afterwards (a type of its own has a larger ID than a type of p's own) and
\* was given, for a type it shares with p, the ID assigned in p's call.
C34_Witness ==
    \E p, q \in Procs :
       /\ p # q
       /\ FailedAfterInterning(p)
       /\ calls[q].typeIDs # <<>>
       /\ \E i, i2 \in DOMAIN TypeKeys(p), j, k \in DOMAIN TypeKeys(q) :
             /\ TypeKeys(p)[i] = TypeKeys(q)[j]
             /\ calls[q].typeIDs[j] = typeIDs[TypeKeys(p)[i]]
             /\ \A x \in DOMAIN TypeKeys(q) : TypeKeys(q)[x] # TypeKeys(p)[i2]
             /\ \A x \in DOMAIN TypeKeys(p) : TypeKeys(p)[x] # TypeKeys(q)[k]
             /\ typeIDs[TypeKeys(p)[i2]] < typeIDs[TypeKeys(q)[k]]
             /\ typeIDs[TypeKeys(p)[i]] < typeIDs[TypeKeys(p)[i2]]

(***************************************************************************)
(* Properties of replaceImports over the iteration orders of its maps      *)
(***************************************************************************)

\* The imports of the module that c.replaceImports(module) returns when its two range
\* statements visit the maps in the orders given.
ImportsReturned(c, module, orderModules, orderImports) ==
    LET r == replaceImports(mcStructs[c], mcMaps, ReplaceImportsHeap, module,
                            orderModules, orderImports)
    IN  [i \in DOMAIN r.modules[r.out].ImportSection |->
            r.imports[r.modules[r.out].ImportSection[i]]]

\* C35: replaceImports is deterministic: the import list of the module it returned
\* is the one it returns for the same configuration and module under every
\* iteration order of replacedImportModules and replacedImports.
C35_ReplaceImportsDeterministic ==
    mcLast.method = "replaceImports" =>
        \A orderModules \in Orders(MapKeys(mcStructs[mcLast.c].replacedImportModules)),
           orderImports \in Orders(MapKeys(mcStructs[mcLast.c].replacedImports)) :
            ImportsReturned(mcLast.c, mcLast.module, orderModules, orderImports)
                = OutputImports

(***************************************************************************)
(* Configurations derived from a common parent                             *)
(***************************************************************************)

\* The WithXXX calls made, each on any configuration built so far.
MaxDerivations == 3

DeriveEnvKeys == {<<"a">>, <<"c">>}

\* One call c.WithXXX(...) on the configuration behind c: the heap after it, the
\* record of the call, and for every configuration but the first the call that
\* returned it.
DeriveCall(call, c, r) ==
    /\ mcStructs' = r.structs
    /\ mcMaps' = r.maps
    /\ mcArrays' = r.arrays
    /\ mcLast' = [method |-> call[1], c |-> c, out |-> r.out, panic |-> r.panic,
                  derived |-> IF r.panic THEN mcLast.derived
                              ELSE Append(mcLast.derived, [call |-> call, c |-> c])]
    /\ UNCHANGED storeVars
    /\ UNCHANGED binaryVars
    /\ UNCHANGED rcVars

MayDerive == ~mcLast.panic /\ Len(mcStructs) <= MaxDerivations

DvWithEnv ==
    /\ MayDerive
    /\ \E c \in 1..Len(mcStructs), key \in DeriveEnvKeys, value \in SysEnvValues :
          DeriveCall(<<"WithEnv", key, value>>, c, WithEnv(Heap, c, key, value))

DvWithFS ==
    /\ MayDerive
    /\ \E c \in 1..Len(mcStructs), fs \in FSs :
          DeriveCall(<<"WithFS", fs>>, c, WithFS(Heap, c, fs))

DvWithWorkDirFS ==
    /\ MayDerive
    /\ \E c \in 1..Len(mcStructs), fs \in FSs :
          DeriveCall(<<"WithWorkDirFS", fs>>, c, WithWorkDirFS(Heap, c, fs))

\* c.toSysContext() on any configuration built so far.
DvToSysContext ==
    /\ ~mcLast.panic
    /\ \E c \in 1..Len(mcStructs) :
       \E order \in Orders(DOMAIN mcMaps[mcStructs[c].preopens]) :
          LET r == toSysContext(Heap, mcStructs[c], order) IN
          /\ mcMaps' = r.maps
          /\ mcLast' = [method |-> "toSysContext", c |-> c, out |-> 0, panic |-> FALSE,
                        derived |-> mcLast.derived, sys |-> r.sys, err |-> r.err]
    /\ UNCHANGED <<mcStructs, mcArrays>>
    /\ UNCHANGED storeVars
    /\ UNCHANGED binaryVars
    /\ UNCHANGED rcVars

DeriveInit ==
    /\ mcStructs = NewModuleConfig.structs
    /\ mcMaps = NewModuleConfig.maps
    /\ mcArrays = NewModuleConfig.arrays
    /\ mcLast = [method |-> "NewModuleConfig", c |-> 0, out |-> 1, panic |-> FALSE,
                 derived |-> <<>>]
    /\ StoreUnused
    /\ RuntimeConfigUnused
    /\ BinaryUnused

DeriveNext ==
    \/ DvWithEnv
    \/ DvWithFS
    \/ DvWithWorkDirFS
    \/ DvToSysContext

SpecDerive == DeriveInit /\ [][DeriveNext]_vars

\* The calls that lead from NewModuleConfig() to the configuration behind c, in the
\* order they were made.
RECURSIVE Lineage(_)
Lineage(c) ==
    IF c = 1 THEN <<>>
    ELSE Append(Lineage(mcLast.derived[c - 1].c), mcLast.derived[c - 1].call)

\* The heap after the calls from call i on, each made on the configuration the call
\* before it returned, and nothing else.
RECURSIVE Alone(_, _, _)
Alone(calls_, i, h) ==
    IF i > Len(calls_) \/ h.panic THEN h
    ELSE LET call == calls_[i]
             c == Len(h.structs)
         IN  Alone(calls_, i + 1,
                   IF call[1] = "WithEnv" THEN WithEnv(h, c, call[2], call[3])
                   ELSE IF call[1] = "WithFS" THEN WithFS(h, c, call[2])
                   ELSE WithWorkDirFS(h, c, call[2]))

\* C36: configurations derived from a common parent are independent: no WithXXX
\* call panics, and toSysContext on a configuration returns what it returns when
\* only the calls that lead to that configuration were ever made.
C36_DerivationsIndependent ==
    /\ ~mcLast.panic
    /\ mcLast.method = "toSysContext" =>
          LET h == Alone(Lineage(mcLast.c), 1, NewModuleConfig @@ [out |-> 1, panic |-> FALSE])
              c == h.structs[Len(h.structs)]
          IN  /\ ~h.panic
              /\ \A order \in Orders(DOMAIN h.maps[c.preopens]) :
                    LET r == toSysContext(h, c, order) IN
                    r.sys = mcLast.sys /\ r.err = mcLast.err

(***************************************************************************)
(* Properties of what toSysContext writes                                  *)
(***************************************************************************)

\* C37: toSysContext writes to nothing that is reachable from the configuration: the
\* configuration's struct, its maps and its arrays are after the call what they were
\* before it; and a call repeated on the same configuration returns the same
\* SysContext.
C37_ToSysContextWritesNothing ==
    [][mcLast'.method = "toSysContext" =>
          /\ mcStructs' = mcStructs
          /\ mcMaps' = mcMaps
          /\ mcArrays' = mcArrays
          /\ (mcLast.method = "toSysContext" /\ mcLast.sys # NilPtr /\ mcLast'.sys # NilPtr)
             => mcLast'.sys = mcLast.sys]_vars

(***************************************************************************)
(* Properties of addSections                                               *)
(***************************************************************************)

\* The imports of kind t of goroutine p's module, in declaration order.
ImportsOfType(p, t) ==
    SelectSeq(Modules[calls[p].module].ImportSection, LAMBDA i : i.Type = t)

\* What the import i resolves to: the export of that name of the published instance.
Exported(i) == modules[i.Module].Exports[i.Name]

\* Goroutine p's step builds its ModuleInstance and runs addSections on it.
AddsSections(p) == calls[p].pc = "buildTables" /\ calls'[p].pc = "validateData"

====
